---- MODULE Spec2Model ----
(***************************************************************************)
(* Glint Studio shader composer: the effect registry, compose(), the      *)
(* generated colorRamp() and generator layering, bakeShader() and the app  *)
(* handlers that place effect instances.                                   *)
(*                                                                         *)
(* Text is modelled as a sequence of lines, a line as a sequence of        *)
(* tokens (strings).  An identifier that a regular expression of the code  *)
(* can match as a whole word (a uniform name, a $placeholder) is a token   *)
(* of its own; the text between two such identifiers is one verbatim       *)
(* token.  Numbers are fixed point, in units of 10^-6 (Micro), the         *)
(* precision formatFloat prints.                                           *)
(***************************************************************************)
EXTENDS Integers, Sequences, FiniteSets, TLC

VARIABLES
  activeEffects,        \* AppState.activeEffects / the list handed to compose
  colors,               \* AppState.colors: hex colours, each the sequence of its characters
  colorCount,           \* compose's second argument (state.colors.length)
  paramValues,          \* AppState.paramValues: scoped id -> value
  activePresetId,       \* AppState.activePresetId ("null" for null)
  shaderName,           \* AppState.shaderName
  glsl,                 \* ComposeResult.glsl of the last compose call (compiledFragmentSource)
  params,               \* ComposeResult.params of the last compose call
  baked,                \* the output of the last bakeShader call
  exported,             \* doExport's bakedFragment, the fragment source of the exported file
  undoStack,            \* Store.undoStack
  redoStack,            \* Store.redoStack
  pendingParamSnapshot, \* Store.pendingParamSnapshot
  exportFunctionName,   \* AppState.exportFunctionName
  addColorShown,        \* sidebar: the Add Color button is displayed
  startedFrom,          \* what the initial state was restored from: "blank", "url", "autosave"
  randomSeed,           \* which of the sampled Math.random streams this run draws from
  journal,              \* the last handler call: what it was and the undoable state around it (history)
  usedIds,              \* every id generateInstanceId has returned, oldest first (history)
  phase,                \* position of the caller or of the fragment program
  uColor,               \* the values of u_color0.. seen by the fragment program
  layer,                \* number of generators the fragment program has run
  color,                \* GLSL variable color
  mixFactor,            \* GLSL variable mixFactor
  prevColor,            \* GLSL variable _prevColor<i> of the last layer
  layerBlend,           \* GLSL variable _layerBlend<i> of the last layer
  rampT,                \* argument of the last colorRamp call made on its own
  rampOut,              \* its result
  fragmentSource,       \* AppState.fragmentSource: the source in the code editor
  compileErrors,        \* AppState.compileErrors
  activeTemplateId,     \* AppState.activeTemplateId
  templateValueCache,   \* main.ts templateValueCache: template id -> param values
  edits                 \* number of handler calls so far in the session (history)

\* const x = value; body, the value computed once
With(value, Body(_)) == Body(value)

appVars == <<activeEffects, colors, colorCount, paramValues, activePresetId, shaderName>>
storeVars == <<undoStack, redoStack, pendingParamSnapshot>>
gpuVars == <<uColor, layer, color, mixFactor, prevColor, layerBlend, rampT, rampOut>>

uiVars == <<exportFunctionName, addColorShown, startedFrom, randomSeed, journal>>

sessionVars == <<fragmentSource, activeTemplateId, templateValueCache, edits>>
editorVars == <<sessionVars, compileErrors>>

vars ==
  <<appVars, glsl, params, baked, exported, storeVars, uiVars, editorVars, usedIds, phase, gpuVars>>

-----------------------------------------------------------------------------
(* Bounds of the model *)

MaxEffects == 2      \* longest activeEffects list handed to compose
MaxSteps == 2        \* entries of the undo stack in one run of the app
MaxLayers == 3       \* generators run by the fragment program
MaxEdits == 2        \* handler calls in one session of the code editor
MaxCalls == 5        \* handler calls in one session of HistorySpec
MaxGenerators == 3   \* generators layered in one composition

(* Program constants *)

Micro == 1000000     \* formatFloat: toFixed(6)
MAX_COLORS == 5
MAX_HISTORY == 50

-----------------------------------------------------------------------------
(* Effect registry *)

P(id, type, defaultValue) ==
  [id |-> id, type |-> type, defaultValue |-> defaultValue, displayUnit |-> "", uniformName |-> ""]

Deg(p) == [p EXCEPT !.displayUnit = "deg"]

polarEffect ==
  [id |-> "polar", name |-> "Polar Coordinates", category |-> "uv-transform", order |-> 30,
   requiredUtils |-> <<>>,
   params |-> <<P("scale", "float", 2000000), Deg(P("rotation", "float", 0))>>,
   glslBody |-> <<
     <<"{">>,
     <<"  vec2 _center = uv - 0.5;">>,
     <<"  float _angle = atan(_center.y, _center.x) + ", "$rotation", ";">>,
     <<"  float _dist = length(_center) * ", "$scale", ";">>,
     <<"  uv = vec2(_angle / 6.28318 + 0.5, _dist);">>,
     <<"  st = uv * vec2(aspect, 1.0);">>,
     <<"}">> >>,
   postMixGlsl |-> <<>>]

diffuseBlurEffect ==
  [id |-> "diffuse-blur", name |-> "Diffuse Blur", category |-> "uv-transform", order |-> 20,
   requiredUtils |-> <<"hash">>,
   params |-> <<P("amount", "float", 20000), P("scale", "float", 20000000),
                P("speed", "float", 500000)>>,
   glslBody |-> <<
     <<"{">>,
     <<"  vec2 _seed = uv * ", "$scale", " + t * ", "$speed", ";">>,
     <<"  vec2 _offset = vec2(">>,
     <<"    hash(_seed) - 0.5,">>,
     <<"    hash(_seed + vec2(37.0, 93.0)) - 0.5">>,
     <<"  );">>,
     <<"  uv += _offset * ", "$amount", ";">>,
     <<"  st += _offset * ", "$amount", " * vec2(aspect, 1.0);">>,
     <<"}">> >>,
   postMixGlsl |-> <<>>]

spiralEffect ==
  [id |-> "spiral", name |-> "Spiral", category |-> "generator", order |-> 150,
   requiredUtils |-> <<>>,
   params |-> <<P("arms", "float", 4000000), P("tightness", "float", 8000000),
                P("speed", "float", 500000), P("thickness", "float", 500000)>>,
   glslBody |-> <<
     <<"{">>,
     <<"  vec2 _center = st - vec2(aspect * 0.5, 0.5);">>,
     <<"  float _angle = atan(_center.y, _center.x);">>,
     <<"  float _dist = length(_center);">>,
     <<"  float _spiral = sin(", "$arms", " * _angle + _dist * ", "$tightness",
       " - t * ", "$speed", ");">>,
     <<"  mixFactor = smoothstep(-", "$thickness", ", ", "$thickness", ", _spiral);">>,
     <<"}">> >>,
   postMixGlsl |-> <<>>]

\* The code lines of the two bodies; their comment lines and blank lines,
\* which hold no placeholder, are left out.
ledBarsEffect ==
  [id |-> "led-bars", name |-> "LED Bars", category |-> "generator", order |-> 160,
   requiredUtils |-> <<"hash", "noise">>,
   params |-> <<P("columns", "float", 48000000), P("rows", "float", 30000000),
                P("cellGap", "float", 250000), P("cellRound", "float", 300000),
                P("noiseScale", "float", 1500000), P("vertStretch", "float", 3000000),
                P("barWidth", "float", 500000), P("speed", "float", 150000),
                P("brightness", "float", 900000), P("bgDarkness", "float", 60000)>>,
   glslBody |-> <<
     <<"{">>,
     <<"  float _cols = ", "$columns", ";">>,
     <<"  float _rows = ", "$rows", ";">>,
     <<"  float _gap = ", "$cellGap", ";">>,
     <<"  vec2 _gridUV = vec2(uv.x * _cols, uv.y * _rows);">>,
     <<"  vec2 _cell = floor(_gridUV);">>,
     <<"  vec2 _cellFrac = fract(_gridUV);">>,
     <<"  vec2 _dist = abs(_cellFrac - 0.5);">>,
     <<"  float _halfGap = _gap * 0.5;">>,
     <<"  float _edgeH = 0.5 - _halfGap;">>,
     <<"  float _round = ", "$cellRound", " * _edgeH;">>,
     <<"  vec2 _q = _dist - vec2(_edgeH - _round);">>,
     <<"  float _sdf = length(max(_q, 0.0)) - _round;">>,
     <<"  float _cellMask = 1.0 - smoothstep(-0.02, 0.02, _sdf);">>,
     <<"  float _nx = _cell.x / _cols;">>,
     <<"  float _ny = _cell.y / _rows;">>,
     <<"  float _n = noise(vec2(_nx * ", "$noiseScale", " * 4.0, _ny * ", "$vertStretch",
       " + t * ", "$speed", "));">>,
     <<"  float _barIntensity = smoothstep(0.5 - ", "$barWidth", " * 0.5, 0.5, _n)">>,
     <<"                      * smoothstep(0.5 + ", "$barWidth", " * 0.5, 0.5, _n) * 4.0;">>,
     <<"  _barIntensity = max(_barIntensity, smoothstep(0.3, 0.6, _n));">>,
     <<"  mixFactor = _nx;">>,
     <<"  mixFactor += (_n - 0.5) * 0.3;">>,
     <<"  mixFactor = clamp(mixFactor, 0.0, 1.0);">>,
     <<"}">> >>,
   postMixGlsl |-> <<
     <<"{">>,
     <<"  float _pmCols = ", "$columns", ";">>,
     <<"  float _pmRows = ", "$rows", ";">>,
     <<"  float _pmGap = ", "$cellGap", ";">>,
     <<"  vec2 _pmGridUV = vec2(uv.x * _pmCols, uv.y * _pmRows);">>,
     <<"  vec2 _pmCell = floor(_pmGridUV);">>,
     <<"  vec2 _pmCellFrac = fract(_pmGridUV);">>,
     <<"  vec2 _pmDist = abs(_pmCellFrac - 0.5);">>,
     <<"  float _pmHalfGap = _pmGap * 0.5;">>,
     <<"  float _pmEdgeH = 0.5 - _pmHalfGap;">>,
     <<"  float _pmRound = ", "$cellRound", " * _pmEdgeH;">>,
     <<"  vec2 _pmQ = _pmDist - vec2(_pmEdgeH - _pmRound);">>,
     <<"  float _pmSdf = length(max(_pmQ, 0.0)) - _pmRound;">>,
     <<"  float _pmCellMask = 1.0 - smoothstep(-0.02, 0.02, _pmSdf);">>,
     <<"  float _pmNx = _pmCell.x / _pmCols;">>,
     <<"  float _pmNy = _pmCell.y / _pmRows;">>,
     <<"  float _pmN = noise(vec2(_pmNx * ", "$noiseScale", " * 4.0, _pmNy * ",
       "$vertStretch", " + t * ", "$speed", "));">>,
     <<"  float _pmBar = smoothstep(0.5 - ", "$barWidth", " * 0.5, 0.5, _pmN)">>,
     <<"               * smoothstep(0.5 + ", "$barWidth", " * 0.5, 0.5, _pmN) * 4.0;">>,
     <<"  _pmBar = max(_pmBar, smoothstep(0.3, 0.6, _pmN));">>,
     <<"  float _pmLit = _pmCellMask * _pmBar * ", "$brightness", ";">>,
     <<"  color = color * _pmLit + vec3(", "$bgDarkness", ") * (1.0 - _pmCellMask);">>,
     <<"}">> >>]

dotGridEffect ==
  [id |-> "dot-grid", name |-> "Dot Grid", category |-> "post", order |-> 250,
   requiredUtils |-> <<>>,
   params |-> <<P("gridSize", "float", 12000000), P("dotScale", "float", 450000),
                P("invert", "bool", 0)>>,
   glslBody |-> <<
     <<"{">>,
     <<"  vec2 _cellUV = fract(gl_FragCoord.xy / ", "$gridSize", ") - 0.5;">>,
     <<"  float _luma = dot(color, vec3(0.299, 0.587, 0.114));">>,
     <<"  float _radius = _luma * ", "$dotScale", ";">>,
     <<"  float _d = length(_cellUV);">>,
     <<"  float _dot = smoothstep(_radius + 0.02, _radius - 0.02, _d);">>,
     <<"  float _mask = mix(_dot, 1.0 - _dot, ", "$invert", ");">>,
     <<"  color *= _mask;">>,
     <<"}">> >>,
   postMixGlsl |-> <<>>]

\* effects/generators/domain-warp.ts is imported by the registry and used by the
\* presets, and is not among the source files: its parameters are those the swirl
\* preset overrides, its helper the fbm the swirl template warps with.
domainWarpEffect ==
  [id |-> "domain-warp", name |-> "Domain Warp", category |-> "generator", order |-> 120,
   requiredUtils |-> <<"fbm">>,
   params |-> <<P("noiseScale", "float", 800000), P("warpIntensity", "float", 4000000),
                P("rotation", "float", 40000000)>>,
   glslBody |-> <<
     <<"{">>,
     <<"  mixFactor = fbm(st * ", "$noiseScale", " + ", "$warpIntensity", " * vec2(",
       "$rotation", "));">>,
     <<"}">> >>,
   postMixGlsl |-> <<>>]

allEffects ==
  <<diffuseBlurEffect, polarEffect, domainWarpEffect, spiralEffect, ledBarsEffect,
    dotGridEffect>>

\* registerEffect for each block in turn: a Map from block.id to the block
RegisterAll(blocks) ==
  [id \in {blocks[i].id : i \in DOMAIN blocks} |->
     (CHOOSE b \in {blocks[i] : i \in DOMAIN blocks} : b.id = id)]

registry == RegisterAll(allEffects)

NoBlock == [id |-> "undefined"]

\* Map.get: the entry under the key, undefined when there is none
MapGet(map, key) == IF key \in DOMAIN map THEN map[key] ELSE NoBlock

getEffect(id) == MapGet(registry, id)

-----------------------------------------------------------------------------
(* Sequences of lines *)

RECURSIVE Flatten(_)
Flatten(ss) == IF ss = <<>> THEN <<>> ELSE Head(ss) \o Flatten(Tail(ss))

MapSeq(s, Op(_)) == [i \in 1..Len(s) |-> Op(s[i])]

Blank == <<>>

\* String.replace(/\b<name>\b/g, to) and String.replace(/\$<id>\b/g, to) on the
\* token model: every token that is the identifier becomes `to`.
ReplaceWord(lines, word, to) ==
  [i \in 1..Len(lines) |->
     [j \in 1..Len(lines[i]) |-> IF lines[i][j] = word THEN to ELSE lines[i][j]]]

-----------------------------------------------------------------------------
(* compose *)

\* variant: the filter without its test of the enabled flag
IsResolvableEffect(ae) == getEffect(ae.blockId) # NoBlock

IsEnabledEffect(ae) == ae.enabled /\ getEffect(ae.blockId) # NoBlock

EnabledEffects(effects) == SelectSeq(effects, IsEnabledEffect)

OrderCompare(a, b) == getEffect(a.blockId).order - getEffect(b.blockId).order

\* Array.prototype.sort is stable: an element goes behind every element that does
\* not compare greater than it.
RECURSIVE InsertSorted(_, _)
InsertSorted(sorted, e) ==
  IF sorted = <<>> THEN <<e>>
  ELSE IF OrderCompare(Head(sorted), e) > 0 THEN <<e>> \o sorted
  ELSE <<Head(sorted)>> \o InsertSorted(Tail(sorted), e)

RECURSIVE SortEffects(_)
SortEffects(s) ==
  IF s = <<>> THEN <<>>
  ELSE InsertSorted(SortEffects(SubSeq(s, 1, Len(s) - 1)), s[Len(s)])

\* new Set<UtilId>() filled in iteration order: a list without repetitions
RECURSIVE AddAll(_, _)
AddAll(set, us) ==
  IF us = <<>> THEN set
  ELSE AddAll(IF \E i \in DOMAIN set : set[i] = Head(us) THEN set ELSE Append(set, Head(us)),
              Tail(us))

RECURSIVE CollectUtils(_, _)
CollectUtils(set, sorted) ==
  IF sorted = <<>> THEN set
  ELSE CollectUtils(AddAll(set, getEffect(Head(sorted).blockId).requiredUtils), Tail(sorted))

\* variant: the helpers of the first effect only
RequiredUtilsOfFirst(sorted) ==
  IF sorted = <<>> THEN <<>> ELSE CollectUtils(<<>>, <<Head(sorted)>>)

RequiredUtils(sorted) == CollectUtils(<<>>, sorted)

\* variant: the parameter id left unscoped
UnscopedId(instanceId, paramId) == paramId

ScopedId(instanceId, paramId) == instanceId \o "_" \o paramId

UniformName(scopedId) == "u_" \o scopedId

paramTypeToGlsl(type) ==
  CASE type = "float" -> "float"
    [] type = "color" -> "vec3"
    [] type = "vec2" -> "vec2"
    [] type = "int" -> "int"
    [] type = "bool" -> "float"
    [] type = "select" -> "float"
    [] OTHER -> "float"

ResolvedParam(effect, param) ==
  [param EXCEPT !.id = ScopedId(effect.instanceId, param.id),
                !.uniformName = UniformName(ScopedId(effect.instanceId, param.id))]

EffectParams(effect) ==
  MapSeq(getEffect(effect.blockId).params, LAMBDA p : ResolvedParam(effect, p))

AllParams(sorted) == Flatten(MapSeq(sorted, EffectParams))

UniformDeclaration(rp) == <<"uniform", paramTypeToGlsl(rp.type), rp.uniformName, ";">>

UniformDeclarations(sorted) == MapSeq(AllParams(sorted), UniformDeclaration)

RECURSIVE replaceParams(_, _, _)
replaceParams(body, instanceId, ps) ==
  IF ps = <<>> THEN body
  ELSE replaceParams(ReplaceWord(body, "$" \o Head(ps).id,
                                 "u_" \o instanceId \o "_" \o Head(ps).id),
                     instanceId, Tail(ps))

indent(code) == [i \in 1..Len(code) |-> IF i = 1 THEN code[i] ELSE <<"  ">> \o code[i]]

\* `  // [${title}]\n  ${indent(body)}`
SnippetText(title, body) ==
  <<<<"  ", "// [" \o title \o "]">>>>
    \o [i \in 1..Len(body) |-> IF i = 1 THEN <<"  ">> \o indent(body)[i] ELSE indent(body)[i]]

Snippet(effect) ==
  LET block == getEffect(effect.blockId)
  IN SnippetText(block.name, replaceParams(block.glslBody, effect.instanceId, block.params))

PostMixSnippet(effect) ==
  LET block == getEffect(effect.blockId)
  IN IF block.postMixGlsl # <<>>
     THEN SnippetText(block.name \o " post-mix",
                      replaceParams(block.postMixGlsl, effect.instanceId, block.params))
     ELSE <<>>

OfCategory(sorted, category) ==
  SelectSeq(sorted, LAMBDA e : getEffect(e.blockId).category = category)

toFixed1(n) == ToString(n) \o ".0"

ColorName(i) == "u_color" \o ToString(i)

generateColorRamp(n) ==
  IF n = 0 THEN << <<"vec3 colorRamp(float t) {">>, <<"  return vec3(0.0);">>, <<"}">> >>
  ELSE IF n = 1 THEN
    << <<"vec3 colorRamp(float t) {">>, <<"  return ", "u_color0", ";">>, <<"}">> >>
  ELSE IF n = 2 THEN
    << <<"vec3 colorRamp(float t) {">>,
       <<"  return mix(", "u_color0", ", ", "u_color1", ", clamp(t, 0.0, 1.0));">>,
       <<"}">> >>
  ELSE
    << <<"vec3 colorRamp(float t) {">>,
       <<"  float _ct = clamp(t, 0.0, 1.0) * " \o toFixed1(n - 1) \o ";">>,
       <<"  vec3 c = ", "u_color0", ";">> >>
    \o [i \in 1..(n - 1) |->
          <<"  c = mix(c, ", ColorName(i), ", clamp(_ct - " \o toFixed1(i - 1) \o ", 0.0, 1.0));">>]
    \o << <<"  return c;">>, <<"}">> >>

ColorDeclarations(n) == [k \in 1..n |-> <<"uniform", "vec3", ColorName(k - 1), ";">>]

\* generators[i] for i >= 1: snapshot, reset, body, weight, blend, post-mix
\* variant: the mix factor reset after the generator's body
LayerLinesResetLate(i, effect) ==
  << Blank,
     <<"  vec3 ", "_prevColor" \o ToString(i), " = color;">>,
     Blank >>
  \o Snippet(effect)
  \o << <<"  mixFactor = 0.5;">>,
        Blank,
        <<"  float ", "_layerBlend" \o ToString(i),
          " = smoothstep(0.0, 1.0, abs(mixFactor - 0.5) * 2.0);">>,
        <<"  color = mix(", "_prevColor" \o ToString(i), ", colorRamp(mixFactor), ",
          "_layerBlend" \o ToString(i), ");">> >>
  \o (IF PostMixSnippet(effect) # <<>> THEN <<Blank>> \o PostMixSnippet(effect) ELSE <<>>)

LayerLines(i, effect) ==
  << Blank,
     <<"  vec3 ", "_prevColor" \o ToString(i), " = color;">>,
     <<"  mixFactor = 0.5;">>,
     Blank >>
  \o Snippet(effect)
  \o << Blank,
        <<"  float ", "_layerBlend" \o ToString(i),
          " = smoothstep(0.0, 1.0, abs(mixFactor - 0.5) * 2.0);">>,
        <<"  color = mix(", "_prevColor" \o ToString(i), ", colorRamp(mixFactor), ",
          "_layerBlend" \o ToString(i), ");">> >>
  \o (IF PostMixSnippet(effect) # <<>> THEN <<Blank>> \o PostMixSnippet(effect) ELSE <<>>)

GeneratorLines(gens) ==
  IF Len(gens) > 0
  THEN <<Blank>> \o Snippet(gens[1])
       \o << Blank, <<"  color = colorRamp(mixFactor);">> >>
       \o (IF PostMixSnippet(gens[1]) # <<>> THEN <<Blank>> \o PostMixSnippet(gens[1]) ELSE <<>>)
       \o Flatten([k \in 1..(Len(gens) - 1) |-> LayerLines(k, gens[k + 1])])
  ELSE << Blank, <<"  color = colorRamp(mixFactor);">> >>

SectionLines(snippets) ==
  IF Len(snippets) > 0 THEN <<Blank>> \o Flatten(MapSeq(snippets, Snippet)) ELSE <<>>

\* variant: the post section pushed before the generators
MainBodyPostFirst(uvs, gens, posts) ==
  SectionLines(uvs) \o SectionLines(posts) \o GeneratorLines(gens)

MainBody(uvs, gens, posts) ==
  SectionLines(uvs) \o GeneratorLines(gens) \o SectionLines(posts)

-----------------------------------------------------------------------------
(* effects/utils.ts is imported by compose and is not among the source files:  *)
(* resolveUtils follows the helper-function resolver of the specification, the *)
(* helper text that of the swirl template.                                     *)

UtilIds == <<"hash", "noise", "fbm">>

UtilDependencies(u) ==
  CASE u = "hash" -> {}
    [] u = "noise" -> {"hash"}
    [] u = "fbm" -> {"noise"}

UtilSource(u) ==
  CASE u = "hash" ->
         << <<"float hash(vec2 p) {">>,
            <<"  return fract(sin(dot(p, vec2(127.1, 311.7))) * 43758.5453123);">>,
            <<"}">> >>
    [] u = "noise" ->
         << <<"float noise(vec2 p) {">>,
            <<"  vec2 i = floor(p);">>,
            <<"  vec2 f = fract(p);">>,
            <<"  vec2 u = f * f * (3.0 - 2.0 * f);">>,
            <<"  return mix(">>,
            <<"    mix(hash(i), hash(i + vec2(1.0, 0.0)), u.x),">>,
            <<"    mix(hash(i + vec2(0.0, 1.0)), hash(i + vec2(1.0, 1.0)), u.x),">>,
            <<"    u.y">>,
            <<"  );">>,
            <<"}">> >>
    [] u = "fbm" ->
         << <<"float fbm(vec2 p) {">>,
            <<"  float v = 0.0;">>,
            <<"  float a = 0.5;">>,
            <<"  for (int i = 0; i < 4; i++) {">>,
            <<"    v += a * noise(p);">>,
            <<"    p *= 2.0;">>,
            <<"    a *= 0.5;">>,
            <<"  }">>,
            <<"  return v;">>,
            <<"}">> >>

RECURSIVE UtilClosure(_)
UtilClosure(us) ==
  LET more == us \cup UNION {UtilDependencies(u) : u \in us}
  IN IF more = us THEN us ELSE UtilClosure(more)

\* each needed helper once, in the fixed order hash, noise, fbm
resolveUtils(required) ==
  LET needed == UtilClosure({required[i] : i \in DOMAIN required})
  IN Flatten([k \in 1..Len(UtilIds) |->
                IF UtilIds[k] \in needed THEN UtilSource(UtilIds[k]) \o <<Blank>> ELSE <<>>])

\* String.trim() of the resolved text: no blank line at either end
RECURSIVE TrimLines(_)
TrimLines(ls) ==
  IF ls = <<>> THEN <<>>
  ELSE IF Head(ls) = Blank THEN TrimLines(Tail(ls))
  ELSE IF ls[Len(ls)] = Blank THEN TrimLines(SubSeq(ls, 1, Len(ls) - 1))
  ELSE ls

-----------------------------------------------------------------------------
(* compose: assembly of the complete shader *)

Preamble(n) ==
  << <<"precision mediump float;">>,
     <<"uniform", "float", "u_time", ";">>,
     <<"uniform", "vec2", "u_resolution", ";">> >>
  \o ColorDeclarations(n)

MainOpen ==
  << <<"void main() {">>,
     <<"  vec2 uv = gl_FragCoord.xy / ", "u_resolution", ";">>,
     <<"  float aspect = ", "u_resolution", ".x / ", "u_resolution", ".y;">>,
     <<"  vec2 st = uv * vec2(aspect, 1.0);">>,
     <<"  float t = ", "u_time", ";">>,
     <<"  vec3 color = vec3(0.0);">>,
     <<"  float mixFactor = 0.5;">> >>

MainClose ==
  << Blank,
     <<"  color = clamp(color, 0.0, 1.0);">>,
     <<"  gl_FragColor = vec4(color, 1.0);">>,
     <<"}">> >>

UtilLines(sorted) ==
  LET utilsCode == TrimLines(resolveUtils(RequiredUtils(sorted)))
  IN IF utilsCode # <<>> THEN <<Blank>> \o utilsCode ELSE <<>>

Sorted(effects) == SortEffects(EnabledEffects(effects))

ComposeGlsl(effects, n) ==
  LET sorted == Sorted(effects)
      decls == UniformDeclarations(sorted)
  IN Preamble(n)
     \o (IF Len(decls) > 0 THEN <<Blank>> \o decls ELSE <<>>)
     \o UtilLines(sorted)
     \o <<Blank>> \o generateColorRamp(n)
     \o <<Blank>> \o MainOpen
     \o MainBody(OfCategory(sorted, "uv-transform"), OfCategory(sorted, "generator"),
                 OfCategory(sorted, "post"))
     \o MainClose

compose(effects, n) ==
  [glsl |-> ComposeGlsl(effects, n), params |-> AllParams(Sorted(effects))]

-----------------------------------------------------------------------------
(* Literals *)

Abs(x) == IF x < 0 THEN -x ELSE x

\* round to nearest, ties up: Math.round, toFixed
RoundDiv(a, b) == (2 * a + b) \div (2 * b)

RECURSIVE Pad(_, _)
Pad(n, w) == IF w = 0 THEN "" ELSE Pad(n \div 10, w - 1) \o ToString(n % 10)

\* the w decimals of toFixed(w) with .replace(/0+$/, '')
RECURSIVE StripZeros(_, _)
StripZeros(frac, w) ==
  IF w = 0 THEN ""
  ELSE IF frac % 10 = 0 THEN StripZeros(frac \div 10, w - 1)
  ELSE Pad(frac, w)

\* n.toFixed(6).replace(/0+$/, '').replace(/\.$/, '.0'), n in units of 10^-6
formatFloat(n) ==
  LET decimals == StripZeros(Abs(n) % Micro, 6)
  IN (IF n < 0 THEN "-" ELSE "") \o ToString(Abs(n) \div Micro) \o "."
       \o (IF decimals = "" THEN "0" ELSE decimals)

HexDigit(c) ==
  CASE c = "0" -> 0 [] c = "1" -> 1 [] c = "2" -> 2 [] c = "3" -> 3 [] c = "4" -> 4
    [] c = "5" -> 5 [] c = "6" -> 6 [] c = "7" -> 7 [] c = "8" -> 8 [] c = "9" -> 9
    [] c = "a" -> 10 [] c = "b" -> 11 [] c = "c" -> 12 [] c = "d" -> 13 [] c = "e" -> 14
    [] c = "f" -> 15

\* a hex colour is the sequence of its characters, "#" first; the channels are
\* parseInt(h.slice(..), 16) / 255, kept to the 10^-6 that formatFloat prints
hexToVec3(hex) ==
  LET h == Tail(hex)
      byte(k) == 16 * HexDigit(h[k]) + HexDigit(h[k + 1])
  IN <<RoundDiv(byte(1) * Micro, 255), RoundDiv(byte(3) * Micro, 255),
       RoundDiv(byte(5) * Micro, 255)>>

Vec3Literal(v) ==
  "vec3(" \o formatFloat(v[1]) \o ", " \o formatFloat(v[2]) \o ", " \o formatFloat(v[3]) \o ")"

toGlslLiteral(type, value) ==
  CASE type \in {"float", "select"} -> formatFloat(value)
    [] type = "int" -> ToString(RoundDiv(value, Micro))
    [] type = "bool" -> IF value > Micro \div 2 THEN "1.0" ELSE "0.0"
    [] type = "color" -> Vec3Literal(hexToVec3(value))
    [] type = "vec2" -> "vec2(" \o formatFloat(value[1]) \o ", " \o formatFloat(value[2]) \o ")"

-----------------------------------------------------------------------------
(* syncUniforms and the renderer's applyUniforms: the live preview *)

\* Math.PI / 180, in units of 10^-6
DEG_TO_RAD == 17453

\* the product of two numbers in units of 10^-6, the whole and the fractional
\* part of the first multiplied apart to stay within 32 bits
Times(a, b) == (a \div Micro) * b + RoundDiv(((a % Micro) \div 1000) * b, 1000)

\* typeof value === 'number' for the value of a parameter of this type
IsNumberType(type) == type \in {"float", "int", "bool", "select"}

\* the calls renderer.setUniform(name, type, value) of one syncUniforms, in order
syncUniforms(ps, values) ==
  [k \in DOMAIN ps |->
     LET param == ps[k]
         value == IF param.id \in DOMAIN values THEN values[param.id] ELSE param.defaultValue
     IN [name |-> param.uniformName, type |-> param.type,
         value |-> IF param.displayUnit = "deg" /\ IsNumberType(param.type)
                   THEN Times(value, DEG_TO_RAD)
                   ELSE value]]

\* what applyUniforms hands to gl.uniform1f / uniform1i / uniform3f / uniform2f
\* for a pending uniform
applyUniforms(type, value) ==
  CASE type \in {"float", "select"} -> value
    [] type = "int" -> (value \div Micro) * Micro
    [] type = "bool" -> IF value > Micro \div 2 THEN Micro ELSE 0
    [] type = "color" -> hexToVec3(value)
    [] type = "vec2" -> value

-----------------------------------------------------------------------------
(* bakeShader *)

GlslWords == {"float", "int", "bool", "vec2", "vec3", "vec4", "sampler2D"}

IsSpace(tok) == tok \in {" ", "  ", "    "}

IsBlankLine(line) == \A j \in DOMAIN line : IsSpace(line[j])

RECURSIVE StripIndent(_)
StripIndent(line) ==
  IF line # <<>> /\ IsSpace(Head(line)) THEN StripIndent(Tail(line)) ELSE line

\* /^\s*uniform\s+\w+\s+<name>\s*;\n?/gm: the name a line declares, "" when the
\* line does not begin with a declaration
DeclaredName(line) ==
  IF Len(line) < 4 THEN ""
  ELSE LET l == StripIndent(line)
       IN IF Len(l) >= 4 /\ l[1] = "uniform" /\ l[2] \in GlslWords /\ l[4] = ";"
          THEN l[3] ELSE ""

\* variant: the declaration of any uniform matches
IsUniformDeclaration(line, names) == DeclaredName(line) # ""

IsDeclarationOf(line, names) == DeclaredName(line) \in names

\* ^\s* also takes the blank lines that stand directly before the declaration
RECURSIVE LeadsToDeclaration(_, _, _)
LeadsToDeclaration(lines, i, names) ==
  /\ i <= Len(lines)
  /\ \/ IsDeclarationOf(lines[i], names)
     \/ IsBlankLine(lines[i]) /\ LeadsToDeclaration(lines, i + 1, names)

\* what the match leaves of a line
Remainder(line, names) ==
  IF IsDeclarationOf(line, names)
  THEN SubSeq(StripIndent(line), 5, Len(StripIndent(line)))
  ELSE line

\* the first loop over params: each pass deletes the declaration lines of its own
\* uniformName and the blank lines before them, so the passes together delete the
\* declarations of the names of ps
RemoveDeclarations(lines, ps) ==
  LET names == {ps[k].uniformName : k \in DOMAIN ps}
      gone(i) == \/ IsDeclarationOf(lines[i], names) /\ Remainder(lines[i], names) = <<>>
                 \/ IsBlankLine(lines[i]) /\ LeadsToDeclaration(lines, i + 1, names)
      kept == SelectSeq([i \in 1..Len(lines) |-> i], LAMBDA i : ~gone(i))
  IN IF names = {} THEN lines
     ELSE SubSeq([k \in 1..Len(kept) |-> Remainder(lines[kept[k]], names)], 1, Len(kept))

\* /^\s*\/\/ \[glint-param\] uniform .+;\n?/gm
IsGlintParamLine(line) ==
  StripIndent(line) # <<>> /\ Head(StripIndent(line)) = "// [glint-param] uniform "

RemoveGlintParamLines(lines) == SelectSeq(lines, LAMBDA l : ~IsGlintParamLine(l))

ValueOf(values, param) ==
  IF param.id \in DOMAIN values THEN values[param.id] ELSE param.defaultValue

\* variant: the second loop left out
KeepToken(tok, ps, values, k) == tok

\* the second loop over params as it acts on one token: pass k turns the token
\* into the literal of parameter k when it is that parameter's uniformName
RECURSIVE ReplaceInToken(_, _, _, _)
ReplaceInToken(tok, ps, values, k) ==
  IF k > Len(ps) THEN tok
  ELSE ReplaceInToken(
         IF tok = ps[k].uniformName
         THEN toGlslLiteral(ps[k].type, ValueOf(values, ps[k]))
         ELSE tok,
         ps, values, k + 1)

\* a token that is no parameter's uniformName passes every pass unchanged
ReplaceReferences(lines, ps, values) ==
  LET names == {ps[k].uniformName : k \in DOMAIN ps}
      replaced(line) ==
        [j \in 1..Len(line) |->
           IF line[j] \in names THEN ReplaceInToken(line[j], ps, values, 1) ELSE line[j]]
  IN SubSeq([i \in 1..Len(lines) |-> SubSeq(replaced(lines[i]), 1, Len(lines[i]))],
            1, Len(lines))

\* .replace(/\n{3,}/g, '\n\n'): a run of empty lines inside the text shrinks to one
\* (to two at an end of the text, to three when the text is nothing else)
EmptyBefore(lines, i, m) == i - m >= 1 /\ \A k \in (i - m)..(i - 1) : lines[k] = <<>>

CollapseBlankLines(lines) ==
  LET n == Len(lines)
      atStart(i) == \A k \in 1..(i - 1) : lines[k] = <<>>
      atEnd(i) == \A k \in (i + 1)..n : lines[k] = <<>>
      allowed(i) == 1 + (IF atStart(i) THEN 1 ELSE 0) + (IF atEnd(i) THEN 1 ELSE 0)
      gone(i) == lines[i] = <<>> /\ EmptyBefore(lines, i, allowed(i))
      kept == SelectSeq([i \in 1..n |-> i], LAMBDA i : ~gone(i))
  IN SubSeq([k \in 1..Len(kept) |-> lines[kept[k]]], 1, Len(kept))

StripDeclarations(source, ps) == RemoveDeclarations(RemoveGlintParamLines(source), ps)

bakeShader(source, ps, values) ==
  CollapseBlankLines(ReplaceReferences(StripDeclarations(source, ps), ps, values))

-----------------------------------------------------------------------------
(* doExport: colour uniforms baked into the output of bakeShader *)

ColorNames(n) == {ColorName(i) : i \in 0..(n - 1)}

\* /^\s*uniform\s+vec3\s+u_color<i>\s*;\n?/gm for the slots i < n
IsColorDeclaration(line, n) ==
  LET l == StripIndent(line)
  IN Len(l) >= 4 /\ l[1] = "uniform" /\ l[2] = "vec3" /\ l[3] \in ColorNames(n) /\ l[4] = ";"

RECURSIVE LeadsToColorDeclaration(_, _, _)
LeadsToColorDeclaration(lines, i, n) ==
  /\ i <= Len(lines)
  /\ \/ IsColorDeclaration(lines[i], n)
     \/ IsBlankLine(lines[i]) /\ LeadsToColorDeclaration(lines, i + 1, n)

ColorRemainder(line, n) ==
  IF IsColorDeclaration(line, n)
  THEN SubSeq(StripIndent(line), 5, Len(StripIndent(line)))
  ELSE line

\* the loop that deletes the declarations of u_color0 .. u_color<n-1>
RemoveColorDeclarations(lines, n) ==
  LET gone(i) == \/ IsColorDeclaration(lines[i], n) /\ ColorRemainder(lines[i], n) = <<>>
                 \/ IsBlankLine(lines[i]) /\ LeadsToColorDeclaration(lines, i + 1, n)
      kept == SelectSeq([i \in 1..Len(lines) |-> i], LAMBDA i : ~gone(i))
  IN IF n = 0 THEN lines
     ELSE SubSeq([k \in 1..Len(kept) |-> ColorRemainder(lines[kept[k]], n)], 1, Len(kept))

\* `vec3(${formatFloat(r)}, ${formatFloat(g)}, ${formatFloat(b)})`
ColorLiteral(hex) == Vec3Literal(hexToVec3(hex))

\* /\bu_color<i>\b/g -> literal, pass i over one token
RECURSIVE ReplaceColorInToken(_, _, _)
ReplaceColorInToken(tok, cs, k) ==
  IF k > Len(cs) THEN tok
  ELSE ReplaceColorInToken(IF tok = ColorName(k - 1) THEN ColorLiteral(cs[k]) ELSE tok,
                           cs, k + 1)

\* the loop that replaces the references to u_color0 .. u_color<n-1>
ReplaceColorReferences(lines, cs) ==
  LET names == ColorNames(Len(cs))
      replaced(line) ==
        [j \in 1..Len(line) |->
           IF line[j] \in names THEN ReplaceColorInToken(line[j], cs, 1) ELSE line[j]]
  IN SubSeq([i \in 1..Len(lines) |-> SubSeq(replaced(lines[i]), 1, Len(lines[i]))],
            1, Len(lines))

\* the colour loop of the earlier revision of doExport (part_000 985-991): slot by
\* slot, the references are replaced and then the declaration is looked for
BakeColorsReplaceFirst(fragment, cs) ==
  RemoveColorDeclarations(ReplaceColorReferences(fragment, cs), Len(cs))

\* the two colour loops: declarations first, then references
BakeColors(fragment, cs) ==
  ReplaceColorReferences(RemoveColorDeclarations(fragment, Len(cs)), cs)

\* bakedFragment of doExport for a state
doExport(effects, cs, values) ==
  LET result == compose(effects, Len(cs))
  IN BakeColors(bakeShader(result.glsl, result.params, values), cs)

-----------------------------------------------------------------------------
(* Inputs *)

\* ids of the shape generateInstanceId returns: six characters of a-z0-9
SampleIds == <<"k3x9qa", "m2p7zb", "t5w1rc", "h8d4wy">>

\* a block id that the registry does not hold
UnknownBlockId == "missing-effect"

\* what one entry of activeEffects can be: an instance of a registered definition,
\* enabled or not, or an enabled instance of a definition the registry does not hold
EntryChoices == ((DOMAIN registry) \X BOOLEAN) \cup {<<UnknownBlockId, TRUE>>}

\* activeEffects lists of distinct placements, in any order of categories
InputLists ==
  UNION {
    {[i \in 1..n |-> [instanceId |-> SampleIds[i], blockId |-> f[i][1], enabled |-> f[i][2]]] :
       f \in [1..n -> EntryChoices]} :
    n \in 0..MaxEffects}

\* the ids of the generator definitions
GeneratorIds ==
  {allEffects[k].id : k \in {j \in DOMAIN allEffects : allEffects[j].category = "generator"}}

\* activeEffects lists of MaxGenerators enabled generators: layer upon layer
LayeredLists ==
  {[i \in 1..MaxGenerators |-> [instanceId |-> SampleIds[i], blockId |-> f[i], enabled |-> TRUE]] :
     f \in [1..MaxGenerators -> GeneratorIds]}

\* one colorCount for each branch of generateColorRamp, and the largest the sidebar allows
ColorCounts == {0, 1, 2, 3, MAX_COLORS}

\* a hex colour, "#rrggbb", as the sequence of its characters
Hex(a, b, c, d, e, f) == <<"#", a, b, c, d, e, f>>

\* the colours of the state: MAX_COLORS distinct ones, the first colorCount in use
SampleColors ==
  <<Hex("f", "f", "0", "0", "0", "0"), Hex("0", "0", "8", "0", "f", "f"),
    Hex("1", "2", "3", "4", "5", "6"), Hex("f", "f", "f", "f", "f", "f"),
    Hex("0", "a", "0", "b", "0", "c")>>

NoValues == [id \in {} |-> 0]

\* value mappings for a params list: none mapped, the first mapped, all mapped
ValueChoices(ps) ==
  {NoValues,
   [id \in {ps[i].id : i \in 1..(IF Len(ps) > 0 THEN 1 ELSE 0)} |-> 12345678],
   [id \in {ps[i].id : i \in DOMAIN ps} |-> 600000]}

NoSnapshot == [none |-> TRUE]

Black == <<0, 0, 0>>

StoreIdle == undoStack = <<>> /\ redoStack = <<>> /\ pendingParamSnapshot = NoSnapshot

\* no handler has been called
NoCall ==
  [op |-> "none", ok |-> TRUE, prev |-> "none", before |-> NoSnapshot, after |-> NoSnapshot,
   from |-> 0, at |-> 0]

\* the code editor is not in use
EditorIdle ==
  /\ fragmentSource = <<>> /\ compileErrors = <<>>
  /\ activeTemplateId = "" /\ templateValueCache = <<>> /\ edits = 0

UiIdle ==
  /\ exportFunctionName = "renderShader" /\ addColorShown = TRUE
  /\ startedFrom = "blank" /\ randomSeed = "distinct" /\ journal = NoCall
  /\ EditorIdle

GpuIdle ==
  /\ uColor = <<>> /\ layer = 0 /\ color = Black /\ mixFactor = 0
  /\ prevColor = Black /\ layerBlend = 0 /\ rampT = 0 /\ rampOut = Black

-----------------------------------------------------------------------------
(* ComposeSpec: compose and bakeShader applied to every input *)

ComposeInit ==
  /\ phase = "input"
  /\ activeEffects \in InputLists \cup LayeredLists
  /\ colorCount \in ColorCounts
  /\ colors = SubSeq(SampleColors, 1, colorCount)
  /\ activePresetId = "null" /\ shaderName = ""
  /\ paramValues = NoValues
  /\ glsl = <<>> /\ params = <<>> /\ baked = <<>> /\ exported = <<>>
  /\ usedIds = <<>>
  /\ StoreIdle
  /\ UiIdle
  /\ GpuIdle

Compose ==
  /\ phase = "input"
  /\ LET result == compose(activeEffects, colorCount)
     IN glsl' = result.glsl /\ params' = result.params
  /\ phase' = "composed"
  /\ UNCHANGED <<appVars, baked, exported, storeVars, uiVars, editorVars, usedIds, gpuVars>>

Bake ==
  /\ phase = "composed"
  /\ \E values \in ValueChoices(params) :
       /\ paramValues' = values
       /\ baked' = bakeShader(glsl, params, values)
  /\ phase' = "baked"
  /\ UNCHANGED <<activeEffects, colors, colorCount, activePresetId, shaderName>>
  /\ UNCHANGED <<glsl, params, exported, storeVars, uiVars, editorVars, usedIds, gpuVars>>

\* doExport on the state whose source Compose and Bake have produced
Export ==
  /\ phase = "baked"
  /\ exported' = doExport(activeEffects, colors, paramValues)
  /\ phase' = "exported"
  /\ UNCHANGED <<appVars, glsl, params, baked, storeVars, uiVars, editorVars, usedIds, gpuVars>>

ComposeNext == Compose \/ Bake \/ Export

ComposeSpec == ComposeInit /\ [][ComposeNext]_vars

-----------------------------------------------------------------------------
(* The app: presets, the store and the handlers that place instances *)

blankPreset ==
  [id |-> "blank", name |-> "Blank", effects |-> <<>>, paramOverrides |-> NoValues,
   colors |-> <<>>]

\* of the preset's effects and overrides those of the definitions modelled here
\* (its film-grain and vignette are not among the source files)
plasmaPreset ==
  [id |-> "plasma", name |-> "Plasma", effects |-> <<"polar", "domain-warp">>,
   paramOverrides |->
     [k \in {"polar.scale", "polar.rotation", "domain-warp.noiseScale",
             "domain-warp.warpIntensity", "domain-warp.rotation"} |->
        CASE k = "polar.scale" -> 2500000
          [] k = "polar.rotation" -> 0
          [] k = "domain-warp.noiseScale" -> 600000
          [] k = "domain-warp.warpIntensity" -> 5000000
          [] k = "domain-warp.rotation" -> 60000000],
   colors |-> <<Hex("f", "f", "0", "0", "c", "c"), Hex("0", "0", "f", "f", "c", "c"),
                Hex("4", "4", "0", "0", "f", "f")>>]

presets == <<blankPreset, plasmaPreset>>

NoPreset == [id |-> "undefined"]

getPreset(id) ==
  IF \E i \in DOMAIN presets : presets[i].id = id
  THEN presets[CHOOSE i \in DOMAIN presets : presets[i].id = id]
  ELSE NoPreset

\* ids generateInstanceId returns in a run, in the order of a stream that has no
\* repetition
GeneratedIds == <<"q7f2ab", "z9c4de", "w1h6fg", "r3j8hi", "y5k0jm", "e2n4pq", "u8s6rt", "b4v2wx">>

\* generateInstanceId, call n of the run: six characters drawn with Math.random.
\* Two streams are sampled: one in which every call returns another id, one in
\* which every second call returns the id of the call before it
generateInstanceId(n) ==
  IF randomSeed = "repeating" THEN GeneratedIds[(n + 1) \div 2] ELSE GeneratedIds[n]

\* what the handlers are called with
MenuBlockIds == {"polar", "spiral", "dot-grid", UnknownBlockId}
PresetIds == {"blank", "plasma", "no-such-preset"}

snapshotUndoable ==
  [shaderName |-> shaderName, activePresetId |-> activePresetId,
   activeEffects |-> activeEffects, paramValues |-> paramValues, colors |-> colors,
   exportFunctionName |-> exportFunctionName]

\* variant: the push without the shift
PushHistoryUnbounded(stack, snapshot) == Append(stack, snapshot)

\* undoStack.push(..); if (undoStack.length > MAX_HISTORY) undoStack.shift()
PushHistory(stack, snapshot) ==
  IF Len(stack) + 1 > MAX_HISTORY THEN Tail(Append(stack, snapshot))
  ELSE Append(stack, snapshot)

\* the undo stack after flushParamDebounce
FlushedUndoStack ==
  IF pendingParamSnapshot # NoSnapshot THEN PushHistory(undoStack, pendingParamSnapshot)
  ELSE undoStack

\* the store's part of setStateWithHistory: flushParamDebounce, pushUndo, redoStack.length = 0
setStateWithHistory ==
  /\ undoStack' = PushHistory(FlushedUndoStack, snapshotUndoable)
  /\ redoStack' = <<>>
  /\ pendingParamSnapshot' = NoSnapshot

\* what renderer.compile returns: null, or the errors of the shader log
CompileOutcomes == {<<>>, <<"ERROR: 0:1">>}

\* variant: compiledFragmentSource written only when the compile succeeded
composeAndCompileIfValid ==
  \E result \in {compose(activeEffects', Len(colors'))} :
    /\ colorCount' = Len(colors')
    /\ params' = result.params
    /\ compileErrors' \in CompileOutcomes
    /\ glsl' = (IF compileErrors' = <<>> THEN result.glsl ELSE glsl)

\* compose of the new state; the result is stored as compiledFragmentSource in
\* both branches of if (errors), whatever renderer.compile has returned
composeAndCompile ==
  \E result \in {compose(activeEffects', Len(colors'))} :
    /\ colorCount' = Len(colors')
    /\ glsl' = result.glsl
    /\ params' = result.params
    /\ compileErrors' \in CompileOutcomes

\* variant: renderColors that leaves the Add Color button displayed
renderColorsAlwaysShown == addColorShown' = TRUE

\* sidebar.updateColors -> renderColors: the Add Color button is hidden at MAX_COLORS
renderColors == addColorShown' = (Len(colors') < MAX_COLORS)

\* what a handler that went through setStateWithHistory leaves in the journal
Changed(op, from, at) ==
  journal' = [op |-> op, ok |-> TRUE, prev |-> "none", before |-> snapshotUndoable,
              after |-> snapshotUndoable', from |-> from, at |-> at]

categoryPriority(category) ==
  CASE category = "uv-transform" -> 0
    [] category = "generator" -> 1
    [] category = "post" -> 2
    [] OTHER -> 1

SetMax(S) == CHOOSE x \in S : \A y \in S : y <= x
SetMin(S) == CHOOSE x \in S : \A y \in S : x <= y

\* position (from 1) at which addEffect splices the new instance
\* variant: the new instance always appended
InsertIndexAtEnd(effects, block) == Len(effects) + 1

InsertIndex(effects, block) ==
  LET same == {i \in DOMAIN effects :
                 /\ getEffect(effects[i].blockId) # NoBlock
                 /\ getEffect(effects[i].blockId).category = block.category}
      higher == {i \in DOMAIN effects :
                   /\ getEffect(effects[i].blockId) # NoBlock
                   /\ categoryPriority(getEffect(effects[i].blockId).category)
                        > categoryPriority(block.category)}
  IN IF same # {} THEN SetMax(same) + 1
     ELSE IF higher # {} THEN SetMin(higher)
     ELSE Len(effects) + 1

Splice(effects, at, e) ==
  SubSeq(effects, 1, at - 1) \o <<e>> \o SubSeq(effects, at, Len(effects))

\* paramValues[`${instanceId}_${param.id}`] = param.defaultValue for each param
WithDefaults(values, instanceId, block) ==
  LET new == {ScopedId(instanceId, block.params[n].id) : n \in DOMAIN block.params}
      default(k) == block.params[CHOOSE n \in DOMAIN block.params :
                                   ScopedId(instanceId, block.params[n].id) = k].defaultValue
  IN [k \in DOMAIN values \cup new |-> IF k \in new THEN default(k) ELSE values[k]]

addEffect(blockId) ==
  LET block == getEffect(blockId)
  IN IF block = NoBlock THEN UNCHANGED vars
     ELSE LET instanceId == generateInstanceId(Len(usedIds) + 1)
          IN
            /\ usedIds' = Append(usedIds, instanceId)
            /\ activeEffects' =
                 Splice(activeEffects, InsertIndex(activeEffects, block),
                        [instanceId |-> instanceId, blockId |-> blockId, enabled |-> TRUE])
            /\ paramValues' = WithDefaults(paramValues, instanceId, block)
            /\ activePresetId' = "null"
            /\ UNCHANGED <<colors, shaderName, exportFunctionName, startedFrom, randomSeed>>
            /\ setStateWithHistory
            /\ composeAndCompile
            /\ renderColors
            /\ Changed("addEffect", 0, 0)
            /\ UNCHANGED <<baked, exported, phase, gpuVars, sessionVars>>

OverrideKey(blockId, paramId) == blockId \o "." \o paramId

\* the paramValues loadPreset builds: for each placed instance and each of its
\* params the preset's override or the default, a later assignment to a key
\* replacing an earlier one
PresetValues(preset, blocks, ids) ==
  LET entries == UNION {{<<i, n>> : n \in DOMAIN getEffect(blocks[i]).params} :
                          i \in DOMAIN blocks}
      param(e) == getEffect(blocks[e[1]]).params[e[2]]
      key(e) == ScopedId(ids[e[1]], param(e).id)
      last(k) == CHOOSE e \in entries :
                   /\ key(e) = k
                   /\ \A f \in entries :
                        key(f) = k => f[1] < e[1] \/ (f[1] = e[1] /\ f[2] <= e[2])
      value(e) == IF OverrideKey(blocks[e[1]], param(e).id) \in DOMAIN preset.paramOverrides
                  THEN preset.paramOverrides[OverrideKey(blocks[e[1]], param(e).id)]
                  ELSE param(e).defaultValue
  IN [k \in {key(e) : e \in entries} |-> value(last(k))]

loadPreset(presetId) ==
  LET preset == getPreset(presetId)
      blocks == SelectSeq(preset.effects, LAMBDA b : getEffect(b) # NoBlock)
  IN IF preset = NoPreset THEN UNCHANGED vars
     ELSE LET ids == [i \in 1..Len(blocks) |-> generateInstanceId(Len(usedIds) + i)]
          IN
            /\ usedIds' = usedIds \o SubSeq(ids, 1, Len(blocks))
            /\ activeEffects' =
                 SubSeq([i \in 1..Len(blocks) |->
                           [instanceId |-> ids[i], blockId |-> blocks[i], enabled |-> TRUE]],
                        1, Len(blocks))
            /\ paramValues' = PresetValues(preset, blocks, ids)
            /\ activePresetId' = preset.id
            /\ shaderName' = preset.name
            /\ colors' = preset.colors
            /\ UNCHANGED <<exportFunctionName, startedFrom, randomSeed>>
            /\ setStateWithHistory
            /\ composeAndCompile
            /\ renderColors
            /\ Changed("loadPreset", 0, 0)
            /\ UNCHANGED <<baked, exported, phase, gpuVars, sessionVars>>

\* every scoped id a key of paramValues can be
ParamIds ==
  UNION {{allEffects[m].params[n].id : n \in DOMAIN allEffects[m].params} :
           m \in DOMAIN allEffects}

\* key.startsWith(instanceId + '_')
StartsWithInstance(key, instanceId) == key \in {ScopedId(instanceId, q) : q \in ParamIds}

removeEffect(instanceId) ==
  /\ activeEffects' = SelectSeq(activeEffects, LAMBDA ae : ae.instanceId # instanceId)
  /\ paramValues' = [k \in {q \in DOMAIN paramValues : ~StartsWithInstance(q, instanceId)} |->
                       paramValues[k]]
  /\ activePresetId' = "null"
  /\ UNCHANGED <<colors, shaderName, exportFunctionName, startedFrom, randomSeed>>
  /\ setStateWithHistory
  /\ composeAndCompile
  /\ renderColors
  /\ Changed("removeEffect", 0, 0)
  /\ UNCHANGED <<baked, exported, usedIds, phase, gpuVars, sessionVars>>

toggleEffect(instanceId, enabled) ==
  /\ activeEffects' = [i \in DOMAIN activeEffects |->
                         IF activeEffects[i].instanceId = instanceId
                         THEN [activeEffects[i] EXCEPT !.enabled = enabled]
                         ELSE activeEffects[i]]
  /\ activePresetId' = "null"
  /\ UNCHANGED <<colors, shaderName, paramValues, exportFunctionName, startedFrom, randomSeed>>
  /\ setStateWithHistory
  /\ composeAndCompile
  /\ UNCHANGED addColorShown
  /\ Changed("toggleEffect", 0, 0)
  /\ UNCHANGED <<baked, exported, usedIds, phase, gpuVars, sessionVars>>

\* variant: redoStack.push without the state's colors being put back
undoKeepingColors ==
  LET stack == FlushedUndoStack
      snapshot == stack[Len(stack)]
  IN /\ undoStack' = SubSeq(stack, 1, Len(stack) - 1)
     /\ redoStack' = Append(IF pendingParamSnapshot # NoSnapshot THEN <<>> ELSE redoStack,
                            snapshotUndoable)
     /\ pendingParamSnapshot' = NoSnapshot
     /\ shaderName' = snapshot.shaderName
     /\ activePresetId' = snapshot.activePresetId
     /\ activeEffects' = snapshot.activeEffects
     /\ paramValues' = snapshot.paramValues
     /\ colors' = colors
     /\ exportFunctionName' = snapshot.exportFunctionName

\* Store.undo when it returns true: flushParamDebounce, pop, push the current
\* state on redoStack, setState(snapshot)
undo ==
  LET stack == FlushedUndoStack
      snapshot == stack[Len(stack)]
  IN /\ undoStack' = SubSeq(stack, 1, Len(stack) - 1)
     /\ redoStack' = Append(IF pendingParamSnapshot # NoSnapshot THEN <<>> ELSE redoStack,
                            snapshotUndoable)
     /\ pendingParamSnapshot' = NoSnapshot
     /\ shaderName' = snapshot.shaderName
     /\ activePresetId' = snapshot.activePresetId
     /\ activeEffects' = snapshot.activeEffects
     /\ paramValues' = snapshot.paramValues
     /\ colors' = snapshot.colors
     /\ exportFunctionName' = snapshot.exportFunctionName

\* Store.redo when it returns true: pop, push the current state on undoStack,
\* setState(snapshot); the param debounce is not flushed
redo ==
  LET snapshot == redoStack[Len(redoStack)]
  IN /\ redoStack' = SubSeq(redoStack, 1, Len(redoStack) - 1)
     /\ undoStack' = Append(undoStack, snapshotUndoable)
     /\ UNCHANGED pendingParamSnapshot
     /\ shaderName' = snapshot.shaderName
     /\ activePresetId' = snapshot.activePresetId
     /\ activeEffects' = snapshot.activeEffects
     /\ paramValues' = snapshot.paramValues
     /\ colors' = snapshot.colors
     /\ exportFunctionName' = snapshot.exportFunctionName

\* what undo or redo leaves in the journal: whether it came directly after a
\* history change (or after the undo of one), and the states around that change
Stepped(op, ok) ==
  LET direct == \/ op = "undo" /\ journal.prev = "none" /\ journal.ok
                     /\ journal.op \in {"addEffect", "loadPreset", "removeEffect",
                                        "toggleEffect", "addColor", "removeColor", "reorder",
                                        "loadSaved"}
                \/ op = "redo" /\ journal.op = "undo" /\ journal.ok /\ journal.prev = "change"
  IN journal' =
       IF ~ok THEN [op |-> op, ok |-> FALSE, prev |-> "none", before |-> snapshotUndoable,
                    after |-> snapshotUndoable, from |-> 0, at |-> 0]
       ELSE IF direct
       THEN [op |-> op, ok |-> TRUE, prev |-> IF op = "undo" THEN "change" ELSE "undo",
             before |-> journal.before, after |-> journal.after, from |-> 0, at |-> 0]
       ELSE [op |-> op, ok |-> TRUE, prev |-> "other", before |-> snapshotUndoable,
             after |-> snapshotUndoable', from |-> 0, at |-> 0]

handleUndo ==
  IF FlushedUndoStack = <<>>
  THEN /\ Stepped("undo", FALSE)
       /\ UNCHANGED <<appVars, glsl, params, storeVars, exportFunctionName, addColorShown,
                    compileErrors>>
  ELSE /\ undo
       /\ composeAndCompile
       /\ renderColors
       /\ Stepped("undo", TRUE)

handleRedo ==
  IF redoStack = <<>>
  THEN /\ Stepped("redo", FALSE)
       /\ UNCHANGED <<appVars, glsl, params, storeVars, exportFunctionName, addColorShown,
                    compileErrors>>
  ELSE /\ redo
       /\ composeAndCompile
       /\ renderColors
       /\ Stepped("redo", TRUE)

\* the colour onAddColor appends
Grey == Hex("8", "0", "8", "0", "8", "0")

onAddColor ==
  /\ colors' = Append(colors, Grey)
  /\ activePresetId' = "null"
  /\ UNCHANGED <<activeEffects, paramValues, shaderName, exportFunctionName>>
  /\ setStateWithHistory
  /\ composeAndCompile
  /\ renderColors
  /\ Changed("addColor", 0, 0)

\* colors.filter((_, i) => i !== index), index counted from 1 here
onRemoveColor(index) ==
  /\ colors' = SubSeq(colors, 1, index - 1) \o SubSeq(colors, index + 1, Len(colors))
  /\ activePresetId' = "null"
  /\ UNCHANGED <<activeEffects, paramValues, shaderName, exportFunctionName>>
  /\ setStateWithHistory
  /\ composeAndCompile
  /\ renderColors
  /\ Changed("removeColor", 0, 0)

\* the store's part of setStateParamChange: the first call of a burst keeps the
\* snapshot, the timer is (re)started
\* variant: the snapshot taken at every call of a burst
setStateParamChangeLatest ==
  /\ pendingParamSnapshot' = snapshotUndoable
  /\ UNCHANGED <<undoStack, redoStack>>

setStateParamChange ==
  /\ pendingParamSnapshot' =
       IF pendingParamSnapshot = NoSnapshot THEN snapshotUndoable ELSE pendingParamSnapshot
  /\ UNCHANGED <<undoStack, redoStack>>

onColorChange(index, value) ==
  /\ colors' = [colors EXCEPT ![index] = value]
  /\ activePresetId' = "null"
  /\ UNCHANGED <<activeEffects, paramValues, shaderName, exportFunctionName>>
  /\ setStateParamChange
  /\ UNCHANGED <<colorCount, glsl, params, addColorShown, compileErrors>>
  /\ journal' = [op |-> "colorChange", ok |-> TRUE, prev |-> "none",
                 before |-> snapshotUndoable, after |-> snapshotUndoable',
                 from |-> 0, at |-> 0]

\* the debounce timer of setStateParamChange fires: flushParamDebounce
flushParamDebounce ==
  /\ undoStack' = FlushedUndoStack
  /\ redoStack' = <<>>
  /\ pendingParamSnapshot' = NoSnapshot
  /\ UNCHANGED <<appVars, glsl, params, exportFunctionName, addColorShown, compileErrors>>
  /\ journal' = [op |-> "flush", ok |-> TRUE, prev |-> "none", before |-> snapshotUndoable,
                 after |-> snapshotUndoable, from |-> 0, at |-> 0]

\* a shader of the saved list (saveShader wrote it from a state of the app)
SavedShader ==
  [id |-> "saved-1", name |-> "Dots", activePresetId |-> "null",
   activeEffects |-> <<[instanceId |-> SampleIds[4], blockId |-> "dot-grid", enabled |-> TRUE]>>,
   paramValues |-> NoValues,
   colors |-> <<SampleColors[2], SampleColors[4]>>,
   exportFunctionName |-> "renderDots"]

\* onLoadSaved: setStateWithHistory(savedShaderToState(saved))
onLoadSaved(saved) ==
  /\ activePresetId' = saved.activePresetId
  /\ shaderName' = saved.name
  /\ activeEffects' = saved.activeEffects
  /\ paramValues' = saved.paramValues
  /\ colors' = saved.colors
  /\ exportFunctionName' = saved.exportFunctionName
  /\ setStateWithHistory
  /\ composeAndCompile
  /\ renderColors
  /\ Changed("loadSaved", 0, 0)

\* the items renderEffects builds: the instances whose definition resolves
RenderedItems(effects) == {i \in DOMAIN effects : getEffect(effects[i].blockId) # NoBlock}

ItemCategory(effects, i) == getEffect(effects[i].blockId).category

\* categoryRanges.get(cat).end: the last index of an instance of the category
RangeEnd(effects, cat) ==
  SetMax({i \in RenderedItems(effects) : ItemCategory(effects, i) = cat})

RangeStart(effects, cat) ==
  SetMin({i \in RenderedItems(effects) : ItemCategory(effects, i) = cat})

\* the drop handler's toIndex for a drop on item onto, on its lower or upper half
DropIndex(effects, onto, lower) ==
  IF lower /\ onto < RangeEnd(effects, ItemCategory(effects, onto)) THEN onto + 1 ELSE onto

\* effects.splice(fromIndex, 1) and effects.splice(insertAt, 0, moved)
MoveEffect(effects, fromIndex, toIndex) ==
  LET moved == effects[fromIndex]
      rest == SubSeq(effects, 1, fromIndex - 1) \o SubSeq(effects, fromIndex + 1, Len(effects))
      insertAt == IF fromIndex < toIndex THEN toIndex - 1 ELSE toIndex
  IN Splice(rest, insertAt, moved)

\* variant: the drop handler without the test of the category
SameCategoryOrNot(effects, from, onto) == TRUE

\* the drop handler's test: the item dropped on is of the category dragged from
SameCategory(effects, from, onto) ==
  ItemCategory(effects, onto) = ItemCategory(effects, from)

onReorderEffects(fromIndex, toIndex) ==
  /\ activeEffects' = MoveEffect(activeEffects, fromIndex, toIndex)
  /\ activePresetId' = "null"
  /\ UNCHANGED <<colors, paramValues, shaderName, exportFunctionName>>
  /\ setStateWithHistory
  /\ composeAndCompile
  /\ renderColors
  /\ Changed("reorder", fromIndex, IF fromIndex < toIndex THEN toIndex - 1 ELSE toIndex)

\* dragstart on item from, drop on item onto
drop(from, onto, lower) ==
  IF /\ SameCategory(activeEffects, from, onto)
     /\ from # DropIndex(activeEffects, onto, lower)
  THEN onReorderEffects(from, DropIndex(activeEffects, onto, lower))
  ELSE /\ UNCHANGED <<appVars, glsl, params, storeVars, exportFunctionName, addColorShown,
                    compileErrors>>
       /\ journal' = [op |-> "drop", ok |-> FALSE,
                      prev |-> IF SameCategory(activeEffects, from, onto)
                               THEN "same place" ELSE "other category",
                      before |-> snapshotUndoable, after |-> snapshotUndoable,
                      from |-> 0, at |-> 0]

\* the ids of the instances the sidebar shows
ShownIds == {activeEffects[i].instanceId : i \in DOMAIN activeEffects}

Instance(instanceId, blockId) ==
  [instanceId |-> instanceId, blockId |-> blockId, enabled |-> TRUE]

\* the payload of a share link (#s=...): JSON the app takes as it is; this one has
\* an instance id with the scoping delimiter, generators on both sides of a
\* uv-transform and six colours
SharedPayload ==
  [n |-> "Shared Shader",
   e |-> <<Instance("a" \o "_" \o "b", "spiral"), Instance(SampleIds[2], "polar"),
           Instance(SampleIds[3], "spiral")>>,
   p |-> NoValues,
   c |-> Append(SampleColors, Grey)]

decodeShaderUrl(payload) ==
  [shaderName |-> payload.n, activeEffects |-> payload.e, paramValues |-> payload.p,
   colors |-> payload.c, activePresetId |-> "null", exportFunctionName |-> "renderShader"]

\* what saveAutosave wrote in an earlier session: the plasma preset with a fourth
\* colour added
loadAutosave ==
  [shaderName |-> plasmaPreset.name, activePresetId |-> "null",
   activeEffects |-> <<Instance(SampleIds[1], "polar"), Instance(SampleIds[2], "domain-warp")>>,
   paramValues |-> PresetValues(plasmaPreset, plasmaPreset.effects,
                                <<SampleIds[1], SampleIds[2]>>),
   colors |-> Append(plasmaPreset.colors, Grey),
   exportFunctionName |-> "renderShader"]

\* initialState: the blank preset, overwritten by the share link or the autosave
initialState(start) ==
  CASE start = "url" -> decodeShaderUrl(SharedPayload)
    [] start = "autosave" -> loadAutosave
    [] OTHER -> [shaderName |-> blankPreset.name, activePresetId |-> blankPreset.id,
                 activeEffects |-> <<>>, paramValues |-> NoValues,
                 colors |-> blankPreset.colors, exportFunctionName |-> "renderShader"]

\* the store constructed from initialState, the initial composeAndCompile and the
\* sidebar's first renderColors
Init ==
  /\ phase = "app"
  /\ startedFrom \in {"blank", "url", "autosave"}
  /\ randomSeed \in {"distinct", "repeating"}
  /\ activeEffects = initialState(startedFrom).activeEffects
  /\ colors = initialState(startedFrom).colors
  /\ colorCount = Len(colors)
  /\ paramValues = initialState(startedFrom).paramValues
  /\ activePresetId = initialState(startedFrom).activePresetId
  /\ shaderName = initialState(startedFrom).shaderName
  /\ exportFunctionName = initialState(startedFrom).exportFunctionName
  /\ glsl = compose(activeEffects, colorCount).glsl
  /\ params = compose(activeEffects, colorCount).params
  /\ addColorShown = (Len(colors) < MAX_COLORS)
  /\ journal = NoCall
  /\ EditorIdle
  /\ baked = <<>> /\ exported = <<>>
  /\ usedIds = <<>>
  /\ StoreIdle
  /\ GpuIdle

\* a handler that pushes on the undo stack has room to, and generateInstanceId
\* has been called fewer than 2 * MaxSteps times (bounds of the model)
HasRoom ==
  /\ phase = "app"
  /\ Len(FlushedUndoStack) < MaxSteps
  /\ Len(usedIds) + 2 <= 2 * MaxSteps

Frame ==
  UNCHANGED <<baked, exported, usedIds, phase, gpuVars, startedFrom, randomSeed, sessionVars>>

AddEffect ==
  /\ HasRoom
  /\ \E blockId \in MenuBlockIds : addEffect(blockId)

LoadPreset ==
  /\ HasRoom
  /\ \E presetId \in PresetIds : loadPreset(presetId)

RemoveEffect ==
  /\ HasRoom
  /\ \E instanceId \in ShownIds : removeEffect(instanceId)

ToggleEffect ==
  /\ HasRoom
  /\ \E i \in RenderedItems(activeEffects) :
       toggleEffect(activeEffects[i].instanceId, ~activeEffects[i].enabled)

ReorderEffects ==
  /\ HasRoom
  /\ \E from \in RenderedItems(activeEffects), onto \in RenderedItems(activeEffects),
        lower \in BOOLEAN : drop(from, onto, lower)
  /\ Frame

\* a click on the Add Color button, which is there when it is displayed
AddColor ==
  /\ HasRoom /\ addColorShown
  /\ onAddColor
  /\ Frame

RemoveColor ==
  /\ HasRoom
  /\ \E index \in DOMAIN colors \cap {1, Len(colors)} : onRemoveColor(index)
  /\ Frame

ColorChange ==
  /\ phase = "app"
  /\ pendingParamSnapshot = NoSnapshot => Len(undoStack) < MaxSteps
  /\ \E index \in DOMAIN colors \cap {1} : onColorChange(index, SampleColors[3])
  /\ Frame

ParamDebounceTimer ==
  /\ phase = "app" /\ pendingParamSnapshot # NoSnapshot
  /\ flushParamDebounce
  /\ Frame

LoadSaved ==
  /\ HasRoom
  /\ onLoadSaved(SavedShader)
  /\ Frame

Undo ==
  /\ phase = "app"
  /\ handleUndo
  /\ Frame

\* redo does not flush the param debounce; the runs explored are those in which
\* redo is asked for after the debounce timer has fired (bound of the model)
Redo ==
  /\ phase = "app" /\ pendingParamSnapshot = NoSnapshot
  /\ handleRedo
  /\ Frame

\* Spec: the handlers that place, remove, switch and reorder instances
Next == AddEffect \/ LoadPreset \/ RemoveEffect \/ ToggleEffect \/ ReorderEffects

Spec == Init /\ [][Next]_vars

\* EditSpec: the colour handlers, the saved list and undo / redo together with the
\* effect handlers, in a session that starts blank or from the autosave
EditInit == Init /\ startedFrom \in {"blank", "autosave"} /\ randomSeed = "distinct"

EditNext ==
  \/ AddColor \/ RemoveColor \/ ColorChange \/ ParamDebounceTimer
  \/ LoadPreset \/ LoadSaved \/ AddEffect \/ RemoveEffect \/ ToggleEffect
  \/ Undo \/ Redo \/ ReorderEffects

EditSpec == EditInit /\ [][EditNext]_vars

\* HistorySpec: the Store's undo history under colour edits, slider-style colour
\* changes, the debounce timer, undo and redo. The session starts blank, or it is
\* one in which a colour has been added and removed in turn MAX_HISTORY + 1 times.
AddedOnce ==
  [shaderName |-> blankPreset.name, activePresetId |-> "null", activeEffects |-> <<>>,
   paramValues |-> NoValues, colors |-> <<Grey>>, exportFunctionName |-> "renderShader"]

RemovedAgain == [AddedOnce EXCEPT !.colors = <<>>]

LongHistory == [i \in 1..MAX_HISTORY |-> IF i % 2 = 1 THEN AddedOnce ELSE RemovedAgain]

LongSession ==
  /\ phase = "app" /\ startedFrom = "blank" /\ randomSeed = "distinct"
  /\ activeEffects = AddedOnce.activeEffects
  /\ colors = AddedOnce.colors
  /\ colorCount = Len(colors)
  /\ paramValues = AddedOnce.paramValues
  /\ activePresetId = AddedOnce.activePresetId
  /\ shaderName = AddedOnce.shaderName
  /\ exportFunctionName = AddedOnce.exportFunctionName
  /\ glsl = compose(activeEffects, colorCount).glsl
  /\ params = compose(activeEffects, colorCount).params
  /\ addColorShown = (Len(colors) < MAX_COLORS)
  /\ journal = [op |-> "addColor", ok |-> TRUE, prev |-> "none", before |-> RemovedAgain,
                after |-> AddedOnce, from |-> 0, at |-> 0]
  /\ EditorIdle
  /\ baked = <<>> /\ exported = <<>>
  /\ usedIds = <<>>
  /\ undoStack = LongHistory /\ redoStack = <<>> /\ pendingParamSnapshot = NoSnapshot
  /\ GpuIdle

HistoryInit ==
  \/ Init /\ startedFrom = "blank" /\ randomSeed = "distinct"
  \/ LongSession

\* one more handler call of the session, of at most MaxCalls (bound of the model)
HistoryFrame ==
  /\ phase = "app"
  /\ edits < MaxCalls
  /\ edits' = edits + 1
  /\ UNCHANGED <<baked, exported, usedIds, phase, gpuVars, startedFrom, randomSeed,
                 fragmentSource, activeTemplateId, templateValueCache>>

\* the colours a picker is dragged over
PickedColors == {SampleColors[3], SampleColors[4]}

ClickAddColor == addColorShown /\ onAddColor /\ HistoryFrame

ClickRemoveColor == (\E index \in DOMAIN colors \cap {1} : onRemoveColor(index)) /\ HistoryFrame

DragColor ==
  /\ \E index \in DOMAIN colors \cap {1}, value \in PickedColors : onColorChange(index, value)
  /\ HistoryFrame

DebounceTimer == pendingParamSnapshot # NoSnapshot /\ flushParamDebounce /\ HistoryFrame

PressUndo == handleUndo /\ HistoryFrame

\* redo does not flush the param debounce: it can be asked for while the timer runs
PressRedo == handleRedo /\ HistoryFrame

HistoryNext ==
  \/ ClickAddColor \/ ClickRemoveColor \/ DragColor \/ DebounceTimer
  \/ PressUndo \/ PressRedo

HistorySpec == HistoryInit /\ [][HistoryNext]_vars

-----------------------------------------------------------------------------
(* The fragment program compose emits: colorRamp and the generator layers.   *)
(* GLSL floats are fixed point in units of 1/One.                            *)

\* 1.0; halves, thirds and quarters are exact
One == 2 * 2 * 3
Half == One \div 2

\* GLSL clamp(x, lo, hi)
Clamp(x, lo, hi) == IF x < lo THEN lo ELSE IF x > hi THEN hi ELSE x

\* GLSL mix(x, y, a) = x * (1 - a) + y * a on one channel, and on a vec3
Mix(x, y, a) == (x * (One - a) + y * a) \div One

Mix3(x, y, a) == <<Mix(x[1], y[1], a), Mix(x[2], y[2], a), Mix(x[3], y[3], a)>>

\* GLSL smoothstep(e0, e1, x): t = clamp((x - e0) / (e1 - e0), 0, 1); t * t * (3 - 2 * t)
Smoothstep(e0, e1, x) ==
  LET t == Clamp(((x - e0) * One) \div (e1 - e0), 0, One)
  IN (t * t * (3 * One - 2 * t)) \div (One * One)

\* variant: the stage offset taken from i instead of i - 1
StageWeightFromIndex(ct, i) == Clamp(ct - i * One, 0, One)

\* clamp(_ct - ${(i - 1).toFixed(1)}, 0.0, 1.0)
StageWeight(ct, i) == Clamp(ct - (i - 1) * One, 0, One)

\* the loop body `c = mix(c, u_color${i}, ...)` for i, i + 1, .. colorCount - 1
RECURSIVE RampStages(_, _, _, _)
RampStages(cs, ct, c, i) ==
  IF i > Len(cs) - 1 THEN c
  ELSE RampStages(cs, ct, Mix3(c, cs[i + 1], StageWeight(ct, i)), i + 1)

\* the value of the colorRamp function generated for Len(cs) colours; cs[i + 1] is
\* u_color<i>
colorRamp(cs, t) ==
  IF Len(cs) = 0 THEN Black
  ELSE IF Len(cs) = 1 THEN cs[1]
  ELSE IF Len(cs) = 2 THEN Mix3(cs[1], cs[2], Clamp(t, 0, One))
  ELSE RampStages(cs, Clamp(t, 0, One) * (Len(cs) - 1), cs[1], 1)

\* variant: the weight taken from mixFactor itself
LayerBlendUncentred(m) == Smoothstep(0, One, m)

\* smoothstep(0.0, 1.0, abs(mixFactor - 0.5) * 2.0)
LayerBlend(m) == Smoothstep(0, One, Abs(m - Half) * 2)

\* colour values, lists of them for u_color0.., and sample values of t and mixFactor
Palette == {Black, <<One, One, One>>, <<One, 0, Half>>}

ColorLists == UNION {[1..n -> Palette] : n \in 0..MAX_COLORS}

TSamples == (0 - Half)..(One + Half)

MixSamples == {0, One \div 4, Half, (3 * One) \div 4, One}

\* main() entered: vec3 color = vec3(0.0); float mixFactor = 0.5;
GpuInit ==
  /\ phase = "main"
  /\ uColor \in ColorLists
  /\ layer = 0 /\ color = Black /\ mixFactor = Half
  /\ prevColor = Black /\ layerBlend = 0 /\ rampT = 0 /\ rampOut = Black
  /\ activeEffects = <<>> /\ colors = <<>> /\ colorCount = Len(uColor)
  /\ paramValues = NoValues /\ activePresetId = "null" /\ shaderName = ""
  /\ glsl = <<>> /\ params = <<>> /\ baked = <<>> /\ exported = <<>>
  /\ usedIds = <<>>
  /\ StoreIdle
  /\ UiIdle

\* colorRamp called with some t
CallColorRamp ==
  /\ phase = "main"
  /\ \E t \in TSamples : rampT' = t /\ rampOut' = colorRamp(uColor, t)
  /\ phase' = "ramp"
  /\ UNCHANGED <<uColor, layer, color, mixFactor, prevColor, layerBlend>>
  /\ UNCHANGED <<appVars, glsl, params, baked, exported, storeVars, uiVars, editorVars, usedIds>>

\* generators[0]: its body leaves some mixFactor; color = colorRamp(mixFactor)
FirstGenerator ==
  /\ phase = "main"
  /\ \E m \in MixSamples : mixFactor' = m /\ color' = colorRamp(uColor, m)
  /\ layer' = 1
  /\ phase' = "first"
  /\ UNCHANGED <<uColor, prevColor, layerBlend, rampT, rampOut>>
  /\ UNCHANGED <<appVars, glsl, params, baked, exported, storeVars, uiVars, editorVars, usedIds>>

\* generators[i], i >= 1: snapshot, mixFactor = 0.5, body, weight, blend
LayerGenerator ==
  /\ phase \in {"first", "blended", "postmix"}
  /\ layer < MaxLayers
  /\ \E m \in MixSamples :
       /\ prevColor' = color
       /\ mixFactor' = m
       /\ layerBlend' = LayerBlend(m)
       /\ color' = Mix3(color, colorRamp(uColor, m), LayerBlend(m))
  /\ layer' = layer + 1
  /\ phase' = "blended"
  /\ UNCHANGED <<uColor, rampT, rampOut>>
  /\ UNCHANGED <<appVars, glsl, params, baked, exported, storeVars, uiVars, editorVars, usedIds>>

\* a post-mix body, which may assign color anything
PostMix ==
  /\ phase \in {"first", "blended"}
  /\ \E c \in Palette : color' = c
  /\ phase' = "postmix"
  /\ UNCHANGED <<uColor, layer, mixFactor, prevColor, layerBlend, rampT, rampOut>>
  /\ UNCHANGED <<appVars, glsl, params, baked, exported, storeVars, uiVars, editorVars, usedIds>>

GpuNext == CallColorRamp \/ FirstGenerator \/ LayerGenerator \/ PostMix

GpuSpec == GpuInit /\ [][GpuNext]_vars

-----------------------------------------------------------------------------
(* compiler.ts: annotated sources (the code editor's preprocessing pass).     *)
(* A literal is the sequence of its characters, so that parseFloat, parseInt  *)
(* and the regular expressions of vec3ToHex and parseVec work on what they    *)
(* work on in the code.                                                       *)

Digits == {"0", "1", "2", "3", "4", "5", "6", "7", "8", "9"}

Whitespace == {" "}

\* the last index of the run of characters of the class that starts at i
\* (i - 1 when s[i] is not of the class)
RunEnd(s, i, class) == SetMax({j \in (i - 1)..Len(s) : \A k \in i..j : s[k] \in class})

RECURSIVE NatOf(_)
NatOf(digits) ==
  IF digits = <<>> THEN 0
  ELSE 10 * NatOf(SubSeq(digits, 1, Len(digits) - 1)) + HexDigit(digits[Len(digits)])

NaN == [nan |-> TRUE, value |-> 0]

Number(v) == [nan |-> FALSE, value |-> v]

\* parseFloat: leading white space, a sign, digits, a point and digits; NaN when
\* there is no digit where the number should start. The value is in units of
\* 10^-6 (decimals after the sixth are dropped; exponents are not among the
\* characters of the model's literals).
parseFloat(s) ==
  With(RunEnd(s, 1, Whitespace) + 1, LAMBDA start :
  With(IF start <= Len(s) /\ s[start] \in {"+", "-"} THEN start + 1 ELSE start, LAMBDA first :
  With(RunEnd(s, first, Digits), LAMBDA intEnd :
  With(IF intEnd + 1 <= Len(s) /\ s[intEnd + 1] = "."
       THEN SubSeq(s, intEnd + 2, RunEnd(s, intEnd + 2, Digits)) ELSE <<>>, LAMBDA frac :
    IF intEnd < first /\ frac = <<>> THEN NaN
    ELSE Number((IF first > start /\ s[start] = "-" THEN -1 ELSE 1)
                  * (NatOf(SubSeq(s, first, intEnd)) * Micro
                       + NatOf(SubSeq(frac \o <<"0", "0", "0", "0", "0", "0">>, 1, 6))))))))

\* parseInt(s, 10): leading white space, a sign, digits; the value is an integer
parseInt(s) ==
  With(RunEnd(s, 1, Whitespace) + 1, LAMBDA start :
  With(IF start <= Len(s) /\ s[start] \in {"+", "-"} THEN start + 1 ELSE start, LAMBDA first :
  With(RunEnd(s, first, Digits), LAMBDA intEnd :
    IF intEnd < first THEN NaN
    ELSE Number((IF first > start /\ s[start] = "-" THEN -1 ELSE 1)
                  * NatOf(SubSeq(s, first, intEnd))))))

\* n || 0
OrZero(n) == IF n.nan THEN 0 ELSE n.value

\* s.trim()
Trim(s) ==
  LET first == RunEnd(s, 1, Whitespace) + 1
      last == SetMin({j \in 0..Len(s) : \A k \in (j + 1)..Len(s) : s[k] \in Whitespace})
  IN SubSeq(s, first, last)

\* s.split(',')
RECURSIVE Split(_, _)
Split(s, sep) ==
  LET at == {i \in DOMAIN s : s[i] = sep}
  IN IF at = {} THEN <<s>>
     ELSE <<SubSeq(s, 1, SetMin(at) - 1)>> \o Split(SubSeq(s, SetMin(at) + 1, Len(s)), sep)

\* the index after white space and then the character c, 0 when c is not there
\* (or when i is 0 already)
Expect(s, i, c) ==
  With(RunEnd(s, i, Whitespace) + 1, LAMBDA at :
    IF i > 0 /\ at <= Len(s) /\ s[at] = c THEN at + 1 ELSE 0)

\* ([\d.]+) after white space: <<first, last>> of the group, <<0, 0>> when the
\* class matches nothing there (or when i is 0 already)
NumeralAt(s, i) ==
  With(RunEnd(s, i, Whitespace) + 1, LAMBDA at :
  With(RunEnd(s, at, Digits \cup {"."}), LAMBDA last :
    IF i > 0 /\ last >= at THEN <<at, last>> ELSE <<0, 0>>))

\* /vec3\s*\(\s*([\d.]+)\s*,\s*([\d.]+)\s*,\s*([\d.]+)\s*\)/ tried at index i:
\* the three groups, <<>> when it does not match there
MatchVec3At(s, i) ==
  With(IF i + 3 <= Len(s) /\ SubSeq(s, i, i + 3) = <<"v", "e", "c", "3">>
       THEN Expect(s, i + 4, "(") ELSE 0, LAMBDA open :
  With(NumeralAt(s, open), LAMBDA g1 :
  With(NumeralAt(s, Expect(s, IF g1[2] = 0 THEN 0 ELSE g1[2] + 1, ",")), LAMBDA g2 :
  With(NumeralAt(s, Expect(s, IF g2[2] = 0 THEN 0 ELSE g2[2] + 1, ",")), LAMBDA g3 :
    IF Expect(s, IF g3[2] = 0 THEN 0 ELSE g3[2] + 1, ")") = 0 THEN <<>>
    ELSE <<SubSeq(s, g1[1], g1[2]), SubSeq(s, g2[1], g2[2]), SubSeq(s, g3[1], g3[2])>>))))

HexChars == <<"0", "1", "2", "3", "4", "5", "6", "7", "8", "9", "a", "b", "c", "d", "e", "f">>

\* Number.toString(16) of a non-negative integer
RECURSIVE ToHex(_)
ToHex(n) == IF n < 16 THEN <<HexChars[n + 1]>> ELSE ToHex(n \div 16) \o <<HexChars[(n % 16) + 1]>>

\* Math.round(parseFloat(group) * 255).toString(16).padStart(2, '0')
Channel(group) ==
  With(parseFloat(group), LAMBDA n :
  With(IF n.nan THEN <<"N", "a", "N">> ELSE ToHex(RoundDiv(n.value * 255, Micro)), LAMBDA digits :
    IF Len(digits) < 2 THEN <<"0">> \o digits ELSE digits))

\* vec3ToHex: '#888888' when the expression matches nowhere, else '#' and the
\* three channels of the leftmost match
vec3ToHex(literal) ==
  With({i \in DOMAIN literal : MatchVec3At(literal, i) # <<>>}, LAMBDA matches :
    IF matches = {} THEN Hex("8", "8", "8", "8", "8", "8")
    ELSE With(MatchVec3At(literal, SetMin(matches)), LAMBDA m :
           <<"#">> \o Channel(m[1]) \o Channel(m[2]) \o Channel(m[3])))

\* /vec\d\s*\(([\d.,\s]+)\)/ tried at index i: the group, <<>> when it does not
\* match there
MatchVecAt(s, i) ==
  With(IF i + 3 <= Len(s) /\ SubSeq(s, i, i + 2) = <<"v", "e", "c">> /\ s[i + 3] \in Digits
       THEN Expect(s, i + 4, "(") ELSE 0, LAMBDA open :
  With(RunEnd(s, open, Digits \cup {".", ","} \cup Whitespace), LAMBDA last :
    IF open > 0 /\ last >= open /\ last + 1 <= Len(s) /\ s[last + 1] = ")"
    THEN SubSeq(s, open, last) ELSE <<>>))

\* parseVec: count zeros when the expression matches nowhere, else parseFloat || 0
\* of each piece between the commas of the leftmost match
parseVec(literal, count) ==
  LET matches == {i \in DOMAIN literal : MatchVecAt(literal, i) # <<>>}
      pieces == Split(MatchVecAt(literal, SetMin(matches)), ",")
  IN IF matches = {} THEN [k \in 1..count |-> 0]
     ELSE [k \in 1..Len(pieces) |-> OrZero(parseFloat(Trim(pieces[k])))]

\* ShaderParam of the annotated sources; numbers in units of 10^-6, a colour as
\* the characters of its hex string, glslDefault as the characters of the literal
\* (the label, which formatLabel derives from the id, is left out)
Param(id, type, defaultValue, min, max, step, uniformName, glslDefault, group) ==
  [id |-> id, type |-> type, defaultValue |-> defaultValue, min |-> min, max |-> max,
   step |-> step, uniformName |-> uniformName, glslDefault |-> glslDefault, group |-> group]

\* min and max are optional: the empty sequence for undefined, else the number alone
Undefined == <<>>

Num(v) == <<v>>

glslType(paramType) ==
  CASE paramType = "float" -> "float"
    [] paramType = "color" -> "vec3"
    [] paramType = "vec2" -> "vec2"
    [] paramType = "int" -> "int"
    [] paramType = "bool" -> "float"
    [] OTHER -> "float"

mapGlslType(glslT) ==
  CASE glslT = "vec3" -> "color"
    [] glslT = "vec2" -> "vec2"
    [] glslT = "int" -> "int"
    [] glslT = "bool" -> "bool"
    [] OTHER -> "float"

defaultForType(glslT) ==
  CASE glslT = "vec3" -> Hex("8", "8", "8", "8", "8", "8")
    [] glslT = "vec2" -> <<0, 0>>
    [] glslT = "int" -> 0
    [] glslT = "bool" -> 0
    [] OTHER -> Micro \div 2

defaultGlslLiteral(glslT) ==
  CASE glslT = "vec3" -> <<"v", "e", "c", "3", "(", "0", ".", "5", ",", " ", "0", ".", "5", ",",
                           " ", "0", ".", "5", ")">>
    [] glslT = "vec2" -> <<"v", "e", "c", "2", "(", "0", ".", "0", ",", " ", "0", ".", "0", ")">>
    [] glslT = "int" -> <<"0">>
    [] glslT = "bool" -> <<"0", ".", "0">>
    [] OTHER -> <<"0", ".", "5">>

\* String.includes for the lower-cased names of the model and the words inferGroup
\* looks for
Includes ==
  {<<"rotation", "rotation">>, <<"noisescale", "noise">>, <<"noisescale", "scale">>}

\* String.toLowerCase for the names and group words of the model
toLowerCase(word) ==
  CASE word = "noiseScale" -> "noisescale"
    [] word = "colorA" -> "colora"
    [] word = "Noise" -> "noise"
    [] OTHER -> word

inferGroup(name, type) ==
  LET lower == toLowerCase(name)
      includes(word) == <<lower, word>> \in Includes
  IN IF type = "color" THEN "colors"
     ELSE IF includes("speed") \/ includes("drift") \/ includes("time") THEN "animation"
     ELSE IF includes("grain") \/ includes("bright") \/ includes("vignette") THEN "effects"
     ELSE IF includes("warp") \/ includes("noise") \/ includes("scale") \/ includes("fbm")
     THEN "noise"
     ELSE IF includes("wave") \/ includes("displace") \/ includes("freq")
               \/ includes("amplitude")
     THEN "waves"
     ELSE IF includes("mix") \/ includes("smooth")
               \/ (includes("grad") /\ (includes("low") \/ includes("high")))
     THEN "blending"
     ELSE IF includes("mask") THEN "mask"
     ELSE IF includes("rotation") \/ includes("angle") THEN "transform"
     ELSE "effects"

Max2(a, b) == IF a >= b THEN a ELSE b

\* variant: the first argument whatever the second is
Min2First(a, b) == a

Min2(a, b) == IF a <= b THEN a ELSE b

\* Math.floor and Math.ceil of a number in units of 10^-6, in the same units
Floor(x) == (x \div Micro) * Micro
Ceil(x) == -((-x) \div Micro) * Micro

\* variant: a colour literal that does not parse gives black
inferDefaultBlack(type, glslValue) ==
  IF type = "color" \/ mapGlslType(type) = "color"
  THEN (IF \A i \in DOMAIN glslValue : MatchVec3At(glslValue, i) = <<>>
        THEN Hex("0", "0", "0", "0", "0", "0") ELSE vec3ToHex(glslValue))
  ELSE IF type = "float" THEN OrZero(parseFloat(glslValue))
  ELSE IF type = "int" THEN OrZero(parseInt(glslValue)) * Micro
  ELSE IF type = "vec2" THEN parseVec(glslValue, 2)
  ELSE OrZero(parseFloat(glslValue))

\* the default inferParam reads from the literal
inferDefault(type, glslValue) ==
  IF type = "color" \/ mapGlslType(type) = "color" THEN vec3ToHex(glslValue)
  ELSE IF type = "float" THEN OrZero(parseFloat(glslValue))
  ELSE IF type = "int" THEN OrZero(parseInt(glslValue)) * Micro
  ELSE IF type = "vec2" THEN parseVec(glslValue, 2)
  ELSE OrZero(parseFloat(glslValue))

inferParam(name, type, glslValue, uniformName, explicitGroup) ==
  With(IF type = "color" THEN "color" ELSE mapGlslType(type), LAMBDA paramType :
  With(inferDefault(type, glslValue), LAMBDA defaultValue :
  With(IF paramType \in {"color", "vec2"} THEN 0 ELSE defaultValue, LAMBDA numVal :
  With(IF paramType = "color" THEN Undefined
       ELSE IF paramType = "int" THEN Num(Min2(0, Floor(numVal) - 5 * Micro))
       ELSE IF Abs(numVal) < Micro \div 1000 THEN Num(0)
       ELSE Num(Min2(0, numVal - Abs(numVal))), LAMBDA autoMin :
  With(IF paramType = "color" THEN Undefined
       ELSE IF paramType = "int" THEN Num(Max2(10 * Micro, Ceil(numVal) + 10 * Micro))
       ELSE IF Abs(numVal) < Micro \div 1000 THEN Num(Micro)
       ELSE Num(Max2(Abs(numVal) \div 10, numVal + Abs(numVal) * 2)), LAMBDA autoMax :
    Param(name, paramType, defaultValue, autoMin, autoMax,
          IF paramType = "color" THEN Micro \div 100
          ELSE IF paramType = "int" THEN Micro
          ELSE Max2(Micro \div 1000, (autoMax[1] - autoMin[1]) \div 200),
          uniformName, glslValue,
          IF explicitGroup # "" THEN toLowerCase(explicitGroup)
          ELSE inferGroup(name, paramType)))))))

\* An annotated source is a sequence of lines, a line a sequence of items: a piece
\* of text (one token), an annotation that ANNOTATION_RE matches
\* (/*@type:name*/ value /*@*/ or /*@type:name group:Group*/ value /*@*/, the value
\* trimmed), or an opening marker /*@type:name*/ that no /*@*/ follows.
Text(text) ==
  [kind |-> "text", text |-> text, type |-> "", name |-> "", group |-> "", value |-> <<>>]

Annotation(type, name, group, value) ==
  [kind |-> "annotation", text |-> "", type |-> type, name |-> name, group |-> group,
   value |-> value]

Opening(type, name) ==
  [kind |-> "opening", text |-> "", type |-> type, name |-> name, group |-> "", value |-> <<>>]

\* the opening marker as it stands in the text
Marker(item) ==
  "/*@" \o item.type \o ":" \o item.name
    \o (IF item.group # "" THEN " group:" \o item.group ELSE "") \o "*/"

\* the tokens of an item that is left as it is
Render(item) ==
  CASE item.kind = "text" -> <<item.text>>
    [] item.kind = "opening" -> <<Marker(item)>>
    [] OTHER -> <<Marker(item), " ">> \o item.value \o <<" ", "/*@*/">>

RenderLine(line) == Flatten(MapSeq(line, Render))

RenderSource(source) == MapSeq(source, RenderLine)

\* the matches of ANNOTATION_RE in the order of the text
Annotations(source) ==
  Flatten(MapSeq(source, LAMBDA line : SelectSeq(line, LAMBDA item : item.kind = "annotation")))

\* main.ts: /\/\*@\w+:\w+\*\//.test(fragmentSource), which a marker with a group
\* does not match
hasAnnotations(source) ==
  \E i \in DOMAIN source : \E j \in DOMAIN source[i] :
    source[i][j].kind \in {"annotation", "opening"} /\ source[i][j].group = ""

\* paramMap.get(name) after paramMap.set(p.id, p) for each p in turn: the last
\* entry of the list with that id
HasParam(existingParams, name) == \E k \in DOMAIN existingParams : existingParams[k].id = name

ParamOf(existingParams, name) ==
  existingParams[SetMax({k \in DOMAIN existingParams : existingParams[k].id = name})]

\* variant: every annotation is inferred, the existing list is not consulted
DiscoveredInferred(existingParams, a) ==
  inferParam(a.name, a.type, a.value, "u_" \o a.name, a.group)

\* what the replace callback pushes for the first annotation of a name
Discovered(existingParams, a) ==
  IF HasParam(existingParams, a.name) THEN ParamOf(existingParams, a.name)
  ELSE inferParam(a.name, a.type, a.value, "u_" \o a.name, a.group)

\* variant: the callback without the seen set
FirstOfAll(annotations) == annotations

\* the annotations at which seen does not yet hold the name
FirstOf(annotations) ==
  LET first == {k \in DOMAIN annotations :
                  \A j \in 1..(k - 1) : annotations[j].name # annotations[k].name}
  IN SelectSeq([k \in DOMAIN annotations |->
                  IF k \in first THEN annotations[k] ELSE Text("")],
               LAMBDA a : a.kind = "annotation")

\* the source with every annotation replaced by its uniform reference
Replaced(source) ==
  [i \in DOMAIN source |->
     RenderLine([j \in DOMAIN source[i] |->
                   IF source[i][j].kind = "annotation"
                   THEN Text("u_" \o source[i][j].name) ELSE source[i][j]])]

GlintParamLine(p) == <<"// [glint-param] uniform ", glslType(p.type), p.uniformName, ";">>

Declaration(p) == <<"uniform", glslType(p.type), p.uniformName, ";">>

\* /^\s*uniform\s+/ and /^\s*precision\s+/
StartsWith(line, word) == StripIndent(line) # <<>> /\ Head(StripIndent(line)) = word

\* lines.splice(at, 0, ...inserted), at counted from 0
InsertLines(lines, at, inserted) ==
  SubSeq(lines, 1, at) \o inserted \o SubSeq(lines, at + 1, Len(lines))

\* variant: the declarations always put at the top
InjectAtTop(lines, declarations) == declarations \o lines

\* the declarations spliced in after the last line that begins with uniform, else
\* with an empty line after the first precision line, else at the top
Inject(lines, declarations) ==
  With({i \in DOMAIN lines : StartsWith(lines[i], "uniform")}, LAMBDA uniformLines :
  With({i \in DOMAIN lines : StartsWith(lines[i], "precision")}, LAMBDA precisionLines :
    IF uniformLines # {} THEN InsertLines(lines, SetMax(uniformLines), declarations)
    ELSE IF precisionLines # {}
    THEN InsertLines(lines, SetMin(precisionLines), <<Blank>> \o declarations)
    ELSE declarations \o lines))

preprocessAnnotated(source, existingParams) ==
  With(FirstOf(Annotations(source)), LAMBDA first :
  With([k \in DOMAIN first |-> Discovered(existingParams, first[k])], LAMBDA discoveredParams :
    [glsl |-> IF discoveredParams = <<>> THEN Replaced(source)
              ELSE Inject(Replaced(source),
                          MapSeq(discoveredParams, GlintParamLine)
                            \o MapSeq(discoveredParams, Declaration)),
     params |-> discoveredParams]))

\* the glsl types UNIFORM_RE accepts
DetectableTypes == {"float", "vec2", "vec3", "vec4", "int", "bool"}

\* the ids of the uniforms of the model's sources: name.replace(/^u_/, '')
UniformIds == {"time", "resolution", "texture", "custom", "rotation", "noiseScale", "colorA",
               "count", "offset", "tint"}

IdOfUniform(name) == CHOOSE id \in UniformIds : "u_" \o id = name

RESERVED_UNIFORMS == {"u_time", "u_resolution", "u_texture"}

\* UNIFORM_RE on a line: 'uniform', an accepted type, a name u_..., ';'; the
\* expression is not anchored, so the text before 'uniform' may be anything
MatchesUniform(line) ==
  LET l == StripIndent(line)
  IN /\ Len(l) >= 4
     /\ l[1] \in {"uniform", "// [glint-param] uniform "}
     /\ l[2] \in DetectableTypes
     /\ l[3] \in {"u_" \o id : id \in UniformIds}
     /\ l[4] = ";"

detectUniforms(source) ==
  LET found == SelectSeq(source, LAMBDA line :
                 MatchesUniform(line) /\ StripIndent(line)[3] \notin RESERVED_UNIFORMS)
      param(line) ==
        LET glslT == StripIndent(line)[2]
            name == StripIndent(line)[3]
        IN Param(IdOfUniform(name), mapGlslType(glslT), defaultForType(glslT), Num(0),
                 Num(IF glslT = "int" THEN 10 * Micro ELSE Micro),
                 IF glslT = "int" THEN Micro ELSE Micro \div 100,
                 name, defaultGlslLiteral(glslT), "custom")
  IN [k \in DOMAIN found |-> param(found[k])]

\* variant: the detected list is taken whenever it is not empty
DetectedFirst(detected, ps) == IF detected # <<>> THEN detected ELSE ps

\* compileCurrentShader, no annotations: the detected list only when the state
\* has no params
DetectedIfNone(detected, ps) == IF detected # <<>> /\ ps = <<>> THEN detected ELSE ps

\* for (const p of activeParams) if (!(p.id in paramValues)) paramValues[p.id] = p.defaultValue
WithParamDefaults(values, activeParams) ==
  LET ids == {activeParams[k].id : k \in DOMAIN activeParams}
      first(id) == activeParams[SetMin({k \in DOMAIN activeParams : activeParams[k].id = id})]
  IN [id \in DOMAIN values \cup ids |->
        IF id \in DOMAIN values THEN values[id] ELSE first(id).defaultValue]

\* compileCurrentShader on the state the handler has just set (its source, params
\* and values) with the outcome of renderer.compile; the journal keeps the list the
\* pass was given and the list preprocessAnnotated or detectUniforms returned
compileCurrentShader(source, ps, values, errors) ==
  With(hasAnnotations(source), LAMBDA annotated :
  With(IF annotated THEN preprocessAnnotated(source, ps)
       ELSE [glsl |-> RenderSource(source), params |-> detectUniforms(RenderSource(source))],
       LAMBDA result :
  With(IF annotated THEN result.params ELSE DetectedIfNone(result.params, ps),
       LAMBDA activeParams :
    /\ glsl' = result.glsl
    /\ compileErrors' = errors
    /\ params' = IF errors # <<>> THEN ps ELSE activeParams
    /\ paramValues' = IF errors # <<>> THEN values ELSE WithParamDefaults(values, activeParams)
    /\ journal' = [op |-> IF annotated THEN "preprocess" ELSE "detect", ok |-> errors = <<>>,
                   prev |-> "none", before |-> ps, after |-> result.params,
                   from |-> 0, at |-> 0])))

\* Sources of the model. A literal is the sequence of its characters.
Lit07 == <<"0", ".", "7">>
Lit08 == <<"0", ".", "8">>
Lit045 == <<"0", ".", "4", "5">>
LitFast == <<"f", "a", "s", "t">>
Lit3 == <<"3">>
LitMinus7 == <<"-", "7">>
LitMinusHalf == <<"-", "0", ".", "5">>
LitMinusTiny == <<"-", "0", ".", "0", "0", "0", "5">>
LitTiny == <<"0", ".", "0", "0", "0", "5">>
LitZero == <<"0", ".", "0">>
LitX == <<"x">>
LitVec2 == <<"v", "e", "c", "2", "(", "0", ".", "5", ",", " ", "0", ".", "2", "5", ")">>
LitNone == <<"n", "o", "n", "e">>
LitOrange == <<"v", "e", "c", "3", "(", "1", ".", "0", ",", " ", "0", ".", "5", ",", " ", "0",
               ".", "0", ")">>
LitRed == <<"r", "e", "d">>
LitDot == <<"v", "e", "c", "3", "(", ".", ",", " ", "0", ".", "0", ",", " ", "0", ".", "0", ")">>
LitSwirlA == <<"v", "e", "c", "3", "(", "0", ".", "2", "3", "5", ",", " ", "0", ".", "1", "1",
               "8", ",", " ", "0", ".", "6", "5", "9", ")">>
LitGlowA == <<"v", "e", "c", "3", "(", "0", ".", "2", "6", "3", ",", " ", "0", ".", "1", "7",
              "3", ",", " ", "0", ".", "8", "6", "3", ")">>

\* the first lines of a source: those of the templates, a precision line alone, or none
Header(kind) ==
  CASE kind = "uniforms" -> << <<"precision", "mediump", "float", ";">>, Blank,
                               <<"uniform", "float", "u_time", ";">>,
                               <<"uniform", "vec2", "u_resolution", ";">> >>
    [] kind = "precision" -> << <<"precision", "mediump", "float", ";">> >>
    [] OTHER -> <<>>

TextLine(tokens) == MapSeq(tokens, Text)

\* a source with one statement line for each item of the body
Source(kind, body) ==
  MapSeq(Header(kind), TextLine)
    \o [k \in DOMAIN body |-> <<Text("float"), Text("x"), Text("="), body[k], Text(";")>>]
    \o << TextLine(<<"void", "main", "(", ")", "{", "}">>) >>

\* a source without annotations that declares its own uniform
RawSource(kind, glslT, name) ==
  MapSeq(Header(kind) \o << <<"uniform", glslT, name, ";">>,
                            <<"void", "main", "(", ")", "{", "}">> >>, TextLine)

rotation == Annotation("float", "rotation", "", Lit07)
noiseScale == Annotation("float", "noiseScale", "", Lit08)
colorA == Annotation("color", "colorA", "", LitSwirlA)
maskStart == Annotation("float", "maskStart", "", Lit045)

\* swirlTemplate and glowTemplate, of their sources the head, the two lines that
\* annotate rotation, and one line each for noiseScale, colorA and maskStart; of
\* their params those of these annotations
templates ==
  << [id |-> "swirl", name |-> "Swirl", exportFunctionName |-> "renderSwirl",
      fragmentSource |-> Source("uniforms", <<rotation, rotation, noiseScale, colorA>>),
      params |-> << Param("colorA", "color", Hex("3", "c", "1", "e", "a", "8"), Undefined,
                          Undefined, Undefined, "u_colorA", LitSwirlA, "Colors"),
                    Param("rotation", "float", 700000, Num(0), Num(6280000), 10000,
                          "u_rotation", Lit07, "Transform"),
                    Param("noiseScale", "float", 800000, Num(100000), Num(3000000), 10000,
                          "u_noiseScale", Lit08, "Noise") >>],
     [id |-> "glow", name |-> "Glow", exportFunctionName |-> "renderGlow",
      fragmentSource |-> Source("uniforms", <<maskStart, colorA>>),
      params |-> << Param("colorA", "color", Hex("4", "3", "2", "c", "d", "c"), Undefined,
                          Undefined, Undefined, "u_colorA", LitGlowA, "Colors"),
                    Param("maskStart", "float", 450000, Num(0), Num(1000000), 10000, "u_maskStart",
                          Lit045, "Mask") >>] >>

getTemplate(id) == CHOOSE t \in {templates[k] : k \in DOMAIN templates} : t.id = id

defaultParamValues(ps) ==
  [id \in {ps[k].id : k \in DOMAIN ps} |->
     ps[SetMax({k \in DOMAIN ps : ps[k].id = id})].defaultValue]

\* what the user types: bodies with one annotation of every kind, well formed and
\* not, with a name annotated again, and with a marker that is never closed
SampleBodies ==
  { <<rotation>>,
    <<Annotation("float", "rotation", "", LitFast)>>,
    <<Annotation("int", "rotation", "", Lit3)>>,
    <<Annotation("int", "count", "", Lit3)>>,
    <<Annotation("int", "count", "", LitX)>>,
    <<Annotation("vec2", "offset", "", LitVec2)>>,
    <<Annotation("vec2", "offset", "", LitNone)>>,
    <<Annotation("color", "tint", "", LitOrange)>>,
    <<Annotation("color", "tint", "", LitRed)>>,
    <<Annotation("vec3", "tint", "", LitDot)>>,
    <<Annotation("float", "noiseScale", "Noise", Lit08)>>,
    <<Annotation("float", "drift", "", LitMinusHalf)>>,
    <<Annotation("float", "drift", "", LitMinusTiny)>>,
    <<Annotation("float", "drift", "", LitTiny), Annotation("float", "bias", "", LitZero)>>,
    <<Annotation("int", "count", "", LitMinus7)>>,
    <<colorA, Annotation("float", "noiseScale", "Noise", Lit08), colorA>>,
    <<rotation, Annotation("color", "tint", "", LitRed), Annotation("float", "rotation", "", Lit08),
      Annotation("int", "count", "", Lit3)>>,
    <<Opening("float", "rotation")>> }

SampleSources ==
  {Source("uniforms", body) : body \in SampleBodies}
    \cup {Source(kind, <<rotation, noiseScale, rotation>>) : kind \in {"precision", "bare"}}
    \cup {RawSource("uniforms", "float", "u_custom"), RawSource("bare", "vec3", "u_tint"),
          RawSource("uniforms", "vec2", "u_resolution")}

\* the values the sliders of the sidebar are set to
SliderValues == {0, Micro}

\* the part of the state the editor's handlers leave as it is
EditorFrame ==
  UNCHANGED <<activeEffects, colors, colorCount, activePresetId, baked, exported, storeVars,
              addColorShown, startedFrom, randomSeed, usedIds, phase, gpuVars>>

\* code editor onChange(source)
onChange(source, errors) ==
  /\ fragmentSource' = source
  /\ compileCurrentShader(source, params, paramValues, errors)
  /\ UNCHANGED <<activeTemplateId, templateValueCache, shaderName, exportFunctionName>>

\* sidebar onTemplateSelect(id)
onTemplateSelect(id, errors) ==
  With(getTemplate(id), LAMBDA tmpl :
  With(IF activeTemplateId # ""
       THEN [t \in DOMAIN templateValueCache \cup {activeTemplateId} |->
               IF t = activeTemplateId THEN paramValues ELSE templateValueCache[t]]
       ELSE templateValueCache, LAMBDA cache :
    /\ templateValueCache' = cache
    /\ activeTemplateId' = tmpl.id
    /\ shaderName' = tmpl.name
    /\ exportFunctionName' = tmpl.exportFunctionName
    /\ fragmentSource' = tmpl.fragmentSource
    /\ compileCurrentShader(tmpl.fragmentSource, tmpl.params,
                            IF tmpl.id \in DOMAIN cache THEN cache[tmpl.id]
                            ELSE defaultParamValues(tmpl.params), errors)))

\* sidebar onParamChange(paramId, value)
onParamChange(paramId, value) ==
  /\ paramValues' = [id \in DOMAIN paramValues \cup {paramId} |->
                       IF id = paramId THEN value ELSE paramValues[id]]
  /\ journal' = [op |-> "paramChange", ok |-> TRUE, prev |-> "none", before |-> params,
                 after |-> params, from |-> 0, at |-> 0]
  /\ UNCHANGED <<fragmentSource, compileErrors, params, glsl, activeTemplateId,
                 templateValueCache, shaderName, exportFunctionName>>

\* the model follows a session for MaxEdits handler calls
SourceChange ==
  /\ edits < MaxEdits
  /\ \E source \in SampleSources : \E errors \in CompileOutcomes : onChange(source, errors)
  /\ edits' = edits + 1
  /\ EditorFrame

TemplateSelect ==
  /\ edits < MaxEdits
  /\ \E k \in DOMAIN templates : \E errors \in CompileOutcomes :
       onTemplateSelect(templates[k].id, errors)
  /\ edits' = edits + 1
  /\ EditorFrame

\* a slider of a float parameter of the sidebar is moved
ParamChange ==
  /\ edits < MaxEdits
  /\ \E k \in DOMAIN params : \E value \in SliderValues :
       params[k].type = "float" /\ onParamChange(params[k].id, value)
  /\ edits' = edits + 1
  /\ EditorFrame

\* main.ts: the initial state is the swirl template, compiled once
EditorInit ==
  With(getTemplate("swirl"), LAMBDA tmpl :
  With(preprocessAnnotated(tmpl.fragmentSource, tmpl.params), LAMBDA result :
    /\ phase = "editor"
    /\ activeTemplateId = tmpl.id
    /\ shaderName = tmpl.name /\ exportFunctionName = tmpl.exportFunctionName
    /\ fragmentSource = tmpl.fragmentSource
    /\ glsl = result.glsl
    /\ params = result.params
    /\ paramValues = defaultParamValues(tmpl.params)
    /\ compileErrors = <<>>
    /\ templateValueCache = <<>>
    /\ edits = 0
    /\ journal = [op |-> "preprocess", ok |-> TRUE, prev |-> "none", before |-> tmpl.params,
                  after |-> result.params, from |-> 0, at |-> 0]
    /\ activeEffects = <<>> /\ colors = <<>> /\ colorCount = 0 /\ activePresetId = "null"
    /\ baked = <<>> /\ exported = <<>> /\ usedIds = <<>>
    /\ addColorShown = TRUE /\ startedFrom = "blank" /\ randomSeed = "distinct"
    /\ StoreIdle
    /\ GpuIdle))

EditorNext == SourceChange \/ TemplateSelect \/ ParamChange

EditorSpec == EditorInit /\ [][EditorNext]_vars

-----------------------------------------------------------------------------
(* Properties of compose and bakeShader, checked under ComposeSpec *)

\* an instance that takes part in the composition
Live(ae) == ae.enabled /\ ae.blockId \in {allEffects[k].id : k \in DOMAIN allEffects}

LiveIndices == {i \in DOMAIN activeEffects : Live(activeEffects[i])}

CategoryOf(ae) == registry[ae.blockId].category

CategoryRank(ae) ==
  CASE CategoryOf(ae) = "uv-transform" -> 0
    [] CategoryOf(ae) = "generator" -> 1
    [] CategoryOf(ae) = "post" -> 2

\* the lines of `part` stand in `text` from line i on
IsAt(text, i, part) ==
  /\ i + Len(part) - 1 <= Len(text)
  /\ \A k \in 1..Len(part) : text[i + k - 1] = part[k]

Positions(text, part) == {i \in 1..Len(text) : IsAt(text, i, part)}

\* the code an instance contributes to main(): its body snippet and, if its
\* definition has one, its post-mix snippet
Pieces(ae) == {Snippet(ae), PostMixSnippet(ae)} \ {<<>>}

\* every occurrence of `a` ends before every occurrence of `b` begins, and both occur
Precedes(text, a, b) ==
  /\ Positions(text, a) # {} /\ Positions(text, b) # {}
  /\ \A i \in Positions(text, a), j \in Positions(text, b) : i + Len(a) <= j

\* line of the uniform declaration of an instance's first parameter (0 if none)
DeclarationLine(text, ae) ==
  LET name == "u_" \o ae.instanceId \o "_" \o registry[ae.blockId].params[1].id
      at == {i \in 1..Len(text) : Len(text[i]) = 4 /\ text[i][1] = "uniform" /\ text[i][3] = name}
  IN IF at = {} THEN 0 ELSE CHOOSE i \in at : TRUE

\* C1: in the composed source the snippets of every enabled uv-transform instance
\* stand before those (body and post-mix) of every enabled generator instance, and
\* these before those of every enabled post instance, whatever the activation order.
C1_CategoryOrder ==
  phase = "composed" =>
    \A i, j \in LiveIndices :
      CategoryRank(activeEffects[i]) < CategoryRank(activeEffects[j]) =>
        \A a \in Pieces(activeEffects[i]), b \in Pieces(activeEffects[j]) :
          Precedes(glsl, a, b)

\* a post instance activated before a generator with a post-mix body and composed
C1_Witness ==
  /\ phase = "composed"
  /\ Len(activeEffects) = 2
  /\ activeEffects[1].enabled /\ activeEffects[1].blockId = "dot-grid"
  /\ activeEffects[2].enabled /\ activeEffects[2].blockId = "led-bars"
  /\ Precedes(glsl, PostMixSnippet(activeEffects[2]), Snippet(activeEffects[1]))

\* C2: two enabled, resolvable instances of one category have their body snippets
\* and their uniform declarations in the composed source in the order in which they
\* stand in activeEffects.
C2_ActivationOrderKept ==
  phase = "composed" =>
    \A i, j \in LiveIndices :
      (i < j /\ CategoryOf(activeEffects[i]) = CategoryOf(activeEffects[j])) =>
        /\ Precedes(glsl, Snippet(activeEffects[i]), Snippet(activeEffects[j]))
        /\ DeclarationLine(glsl, activeEffects[i]) < DeclarationLine(glsl, activeEffects[j])

\* C3: the params of a composition of pairwise distinct placements have pairwise
\* distinct ids and pairwise distinct uniformNames.
C3_ScopedNamesDistinct ==
  phase = "composed" =>
    \A i, j \in DOMAIN params :
      i # j => params[i].id # params[j].id /\ params[i].uniformName # params[j].uniformName

\* two enabled instances of the same definition composed
C3_Witness ==
  /\ phase = "composed"
  /\ Len(activeEffects) = 2
  /\ activeEffects[1].enabled /\ activeEffects[2].enabled
  /\ activeEffects[1].blockId = "spiral" /\ activeEffects[2].blockId = "spiral"
  /\ Len(params) = 8

\* an instance compose is to skip: switched off, or of a definition the registry
\* does not hold
Skipped(ae) == ~ae.enabled \/ ae.blockId \notin {allEffects[k].id : k \in DOMAIN allEffects}

Tokens(text) == UNION {{text[i][j] : j \in DOMAIN text[i]} : i \in DOMAIN text}

\* C6: compose returns, for a list with disabled or unresolvable instances, the glsl
\* and params of the list without them; no name scoped by such an instance is in
\* the source.
C6_SkippedInstances ==
  phase = "composed" =>
    LET kept == SelectSeq(activeEffects, LAMBDA ae : ~Skipped(ae))
        result == compose(kept, colorCount)
        paramIds == UNION {{allEffects[m].params[n].id : n \in DOMAIN allEffects[m].params} :
                             m \in DOMAIN allEffects}
        skippedIds == {activeEffects[i].instanceId \o "_" \o q :
                         i \in {k \in DOMAIN activeEffects : Skipped(activeEffects[k])},
                         q \in paramIds}
    IN /\ glsl = result.glsl
       /\ params = result.params
       /\ \A k \in DOMAIN params : params[k].id \notin skippedIds
       /\ Tokens(glsl) \cap {"u_" \o id : id \in skippedIds} = {}

\* a disabled instance that needs a helper, composed together with an instance of an
\* unknown definition
C6_Witness ==
  /\ phase = "composed"
  /\ Len(activeEffects) = 2
  /\ ~activeEffects[1].enabled /\ activeEffects[1].blockId = "diffuse-blur"
  /\ activeEffects[2].enabled /\ activeEffects[2].blockId = UnknownBlockId
  /\ params = <<>>

\* the helpers the enabled effects need, directly or through another helper
NeededUtils ==
  UtilClosure(UNION {{registry[activeEffects[i].blockId].requiredUtils[k] :
                        k \in DOMAIN registry[activeEffects[i].blockId].requiredUtils} :
                     i \in LiveIndices})

\* C7: each helper some enabled effect needs is in the composed source exactly once,
\* a helper before every helper that depends on it; a helper no enabled effect needs
\* is not in it.
C7_HelpersOnce ==
  phase = "composed" =>
    /\ \A k \in DOMAIN UtilIds :
         Cardinality(Positions(glsl, UtilSource(UtilIds[k]))) =
           (IF UtilIds[k] \in NeededUtils THEN 1 ELSE 0)
    /\ \A u \in NeededUtils : \A d \in UtilDependencies(u) :
         Precedes(glsl, UtilSource(d), UtilSource(u))

\* two enabled effects that both need hash, one of them through noise
C7_Witness ==
  /\ phase = "composed"
  /\ Len(activeEffects) = 2
  /\ activeEffects[1].enabled /\ activeEffects[1].blockId = "led-bars"
  /\ activeEffects[2].enabled /\ activeEffects[2].blockId = "diffuse-blur"
  /\ Cardinality(Positions(glsl, UtilSource("hash"))) = 1

\* C10: the output of bakeShader for a source and params returned by compose has no
\* uniform declaration of a parameter and nowhere a parameter's uniformName; where
\* the name stood there is the literal of the parameter's value.
C10_BakedHasNoParamUniform ==
  phase = "baked" =>
    /\ Tokens(baked) \cap {params[k].uniformName : k \in DOMAIN params} = {}
    /\ \A i \in DOMAIN baked :
         (Len(baked[i]) >= 3 /\ baked[i][1] = "uniform") =>
           baked[i][3] \in {"u_time", "u_resolution"} \cup {ColorName(c) : c \in 0..(colorCount - 1)}
    /\ {toGlslLiteral(params[k].type, ValueOf(paramValues, params[k])) : k \in DOMAIN params}
         \subseteq Tokens(baked)

\* a source with parameters, baked with one value given and the others defaulted
C10_Witness ==
  /\ phase = "baked"
  /\ Len(params) > 1
  /\ DOMAIN paramValues = {params[1].id}
  /\ params[2].uniformName \in Tokens(glsl)
  /\ "12.345678" \in Tokens(baked)

\* C11: doExport deletes the declaration of every active colour slot before it
\* replaces the references, so the exported source has no u_color<i> left, no
\* uniform declaration other than the built-in ones (none whose name became a
\* literal), and the literal of every active colour where its name stood.
C11_ExportHasNoColorUniform ==
  phase = "exported" =>
    /\ Tokens(exported) \cap ColorNames(Len(colors)) = {}
    /\ \A i \in DOMAIN exported :
         (StripIndent(exported[i]) # <<>> /\ Head(StripIndent(exported[i])) = "uniform") =>
           /\ Len(StripIndent(exported[i])) >= 3
           /\ StripIndent(exported[i])[3] \in {"u_time", "u_resolution"}
    /\ \A k \in DOMAIN colors : ColorLiteral(colors[k]) \in Tokens(exported)

\* an export of a source with parameters and three colours, each declared and used
C11_Witness ==
  /\ phase = "exported"
  /\ Len(colors) = 3 /\ params # <<>>
  /\ \E i \in DOMAIN glsl : glsl[i] = <<"uniform", "vec3", "u_color2", ";">>
  /\ "u_color2" \in Tokens(baked)
  /\ "vec3(0.070588, 0.203922, 0.337255)" \in Tokens(exported)

BuiltIns == {"u_time", "u_resolution"}

\* the declarations of the built-in uniforms, in order
BuiltInDeclarations(text) == SelectSeq(text, LAMBDA l : DeclaredName(l) \in BuiltIns)

\* the references to the built-in uniforms: for each line that has one, the
\* built-in names on it, in order
BuiltInReferences(text) ==
  LET lines == SelectSeq(text, LAMBDA l : \E j \in DOMAIN l : l[j] \in BuiltIns)
  IN [i \in DOMAIN lines |-> SelectSeq(lines[i], LAMBDA tok : tok \in BuiltIns)]

SameBuiltIns(a, b) ==
  /\ BuiltInDeclarations(a) = BuiltInDeclarations(b)
  /\ BuiltInReferences(a) = BuiltInReferences(b)

\* C12: bakeShader and the colour loops of doExport leave the declarations of
\* u_time and u_resolution and every reference to them as compose emitted them.
C12_BuiltInsUntouched ==
  /\ phase \in {"baked", "exported"} =>
       /\ SameBuiltIns(baked, glsl)
       /\ Len(BuiltInDeclarations(baked)) = 2
       /\ Len(BuiltInReferences(baked)) >= 5
  /\ phase = "exported" => SameBuiltIns(exported, glsl)

\* an export that changed the source: parameters and colours were baked
C12_Witness ==
  /\ phase = "exported"
  /\ Len(params) > 2 /\ Len(colors) = MAX_COLORS
  /\ exported # baked /\ baked # glsl
  /\ <<"uniform", "float", "u_time", ";">> = BuiltInDeclarations(exported)[1]
  /\ <<"  float t = ", "u_time", ";">> \in {exported[i] : i \in DOMAIN exported}

\* the generators of the composition in the order in which compose layers them
Generators == OfCategory(Sorted(activeEffects), "generator")

\* the one line at which `part` stands in the text, 0 when it stands nowhere or
\* more than once
PlaceOf(text, part) ==
  IF Cardinality(Positions(text, part)) = 1 THEN CHOOSE i \in Positions(text, part) : TRUE
  ELSE 0

RampLine == <<"  color = colorRamp(mixFactor);">>

SnapshotLine(i) == <<"  vec3 ", "_prevColor" \o ToString(i), " = color;">>

ResetLine == <<"  mixFactor = 0.5;">>

WeightLine(i) ==
  <<"  float ", "_layerBlend" \o ToString(i),
    " = smoothstep(0.0, 1.0, abs(mixFactor - 0.5) * 2.0);">>

BlendLine(i) ==
  <<"  color = mix(", "_prevColor" \o ToString(i), ", colorRamp(mixFactor), ",
    "_layerBlend" \o ToString(i), ");">>

\* the line after the last line of an instance's layer: after its post-mix body
\* if it has one, else after the given line
LayerEnd(text, ae, line) ==
  IF PostMixSnippet(ae) = <<>> THEN line + 1
  ELSE PlaceOf(text, PostMixSnippet(ae)) + Len(PostMixSnippet(ae))

\* the first generator: body, ramp without blend, post-mix body
FirstLayerInOrder(text, gens) ==
  With(PlaceOf(text, Snippet(gens[1])), LAMBDA body :
  With(PlaceOf(text, <<RampLine>>), LAMBDA ramp :
    /\ body > 0 /\ ramp > 0
    /\ body + Len(Snippet(gens[1])) <= ramp
    /\ \A i \in 1..ramp : text[i] # BlendLine(1) /\ text[i] # SnapshotLine(1)
    /\ PostMixSnippet(gens[1]) # <<>> => ramp < PlaceOf(text, PostMixSnippet(gens[1]))
    /\ Len(gens) > 1 => LayerEnd(text, gens[1], ramp) <= PlaceOf(text, <<SnapshotLine(1)>>)))

\* the generator gens[i + 1]: snapshot, reset, body, weight, blend, post-mix body,
\* all of it before the snapshot of the next generator
LaterLayerInOrder(text, gens, i) ==
  With(PlaceOf(text, <<SnapshotLine(i)>>), LAMBDA snapshot :
  With(PlaceOf(text, Snippet(gens[i + 1])), LAMBDA body :
  With(PlaceOf(text, <<WeightLine(i)>>), LAMBDA weight :
    /\ snapshot > 0 /\ body > 0 /\ weight > 0
    /\ text[snapshot + 1] = ResetLine
    /\ snapshot + 1 < body
    /\ \A k \in (snapshot + 2)..(body - 1) : text[k] = Blank
    /\ body + Len(Snippet(gens[i + 1])) <= weight
    /\ text[weight + 1] = BlendLine(i)
    /\ PlaceOf(text, <<BlendLine(i)>>) = weight + 1
    /\ PostMixSnippet(gens[i + 1]) # <<>> =>
         weight + 1 < PlaceOf(text, PostMixSnippet(gens[i + 1]))
    /\ i + 1 < Len(gens) =>
         LayerEnd(text, gens[i + 1], weight + 1) <= PlaceOf(text, <<SnapshotLine(i + 1)>>))))

\* no generator: the ramp is applied once, no layer is emitted, and between the
\* opening of main (where mixFactor is set to 0.5) and the ramp there are only
\* the uv-transform snippets
NoLayer(text) ==
  With(PlaceOf(text, <<RampLine>>), LAMBDA ramp :
  With(PlaceOf(text, MainOpen), LAMBDA open :
    /\ ramp > 0 /\ open > 0
    /\ SubSeq(text, open + Len(MainOpen), ramp - 1)
         = SectionLines(OfCategory(Sorted(activeEffects), "uv-transform")) \o <<Blank>>
    /\ \A i \in DOMAIN text : text[i] # ResetLine /\ text[i] # SnapshotLine(1)))

\* C21: the composed source holds the generator layers in the order of the
\* protocol: the first generator's body, color = colorRamp(mixFactor) without a
\* blend, its post-mix body; for every later generator the snapshot into
\* _prevColor<i>, the reset of mixFactor to 0.5, the body, the weight
\* _layerBlend<i>, the blend, its post-mix body, all before the next snapshot;
\* without a generator the ramp alone, once, with mixFactor still 0.5.
C21_LayerProtocol ==
  phase = "composed" =>
    IF Generators = <<>> THEN NoLayer(glsl)
    ELSE /\ FirstLayerInOrder(glsl, Generators)
         /\ \A i \in 1..(Len(Generators) - 1) : LaterLayerInOrder(glsl, Generators, i)

\* three generators composed, the second and the third with a post-mix body
C21_Witness ==
  /\ phase = "composed"
  /\ Len(Generators) = 3
  /\ PostMixSnippet(Generators[1]) = <<>>
  /\ PostMixSnippet(Generators[2]) # <<>> /\ PostMixSnippet(Generators[3]) # <<>>
  /\ PlaceOf(glsl, <<SnapshotLine(2)>>) > PlaceOf(glsl, PostMixSnippet(Generators[2]))

\* the GLSL literal that denotes a value the GPU is given for a uniform
Denoting(type, v) ==
  CASE type \in {"float", "select", "bool"} -> formatFloat(v)
    [] type = "int" -> ToString(v \div Micro)
    [] type = "color" -> Vec3Literal(v)
    [] type = "vec2" -> "vec2(" \o formatFloat(v[1]) \o ", " \o formatFloat(v[2]) \o ")"

\* C24: the literal bakeShader puts in the place of a parameter's uniform denotes
\* the value that syncUniforms and the renderer give that uniform in the preview
\* for the same value mapping.
C24_BakedAsPreviewed ==
  phase = "baked" =>
    \A k \in DOMAIN params :
      LET sent == syncUniforms(params, paramValues)[k]
      IN /\ sent.name = params[k].uniformName
         /\ toGlslLiteral(params[k].type, ValueOf(paramValues, params[k]))
              = Denoting(sent.type, applyUniforms(sent.type, sent.value))

-----------------------------------------------------------------------------
(* Properties of the app handlers, checked under Spec *)

\* C4: after any sequence of addEffect and loadPreset calls generateInstanceId has
\* returned no id twice, and the instances of activeEffects have pairwise different
\* instanceIds.
C4_InstanceIdsNeverReused ==
  /\ \A i, j \in DOMAIN usedIds : i # j => usedIds[i] # usedIds[j]
  /\ \A i, j \in DOMAIN activeEffects :
       i # j => activeEffects[i].instanceId # activeEffects[j].instanceId

\* the character that joins an instance id and a param id in a scoped name
Delimiter == "_"

\* delimiter-free pieces of the ids that are not drawn by generateInstanceId
IdPieces == {"a", "b"}

\* the id has the delimiter in it (String.includes('_')), for the ids of the model
HasDelimiter(id) == \E x, y \in IdPieces : id = x \o Delimiter \o y

\* C13: no instance whose id contains the delimiter '_' is ever in the list that
\* compose is given: placing or loading one fails before it gets there.
C13_NoDelimiterReachesCompose ==
  \A i \in DOMAIN activeEffects : ~HasDelimiter(activeEffects[i].instanceId)

\* the category of the definition at each index, "none" where none resolves
CategoriesByIndex(effects) ==
  [i \in DOMAIN effects |->
     IF i \in RenderedItems(effects) THEN ItemCategory(effects, i) ELSE "none"]

\* both lists hold the same instances the same number of times
IsPermutation(a, b) ==
  /\ Len(a) = Len(b)
  /\ \A i \in DOMAIN a :
       Cardinality({j \in DOMAIN a : a[j] = a[i]}) = Cardinality({j \in DOMAIN b : b[j] = a[i]})

\* the instances of each category are next to each other
Grouped(effects) ==
  \A i, j, k \in DOMAIN effects :
    (i < j /\ j < k /\ CategoriesByIndex(effects)[i] = CategoriesByIndex(effects)[k]) =>
      CategoriesByIndex(effects)[j] = CategoriesByIndex(effects)[i]

\* a drop on an item of another category has left activeEffects as it was
ForeignDropRefused ==
  (journal.op = "drop" /\ journal.prev = "other category") =>
    activeEffects = journal.before.activeEffects

\* a reorder has put the dragged instance at an index of its category's range and
\* the list is a permutation of the one before
MovedInsideRange ==
  journal.op = "reorder" =>
    LET before == journal.before.activeEffects
        cat == ItemCategory(before, journal.from)
    IN /\ activeEffects = journal.after.activeEffects
       /\ activeEffects[journal.at] = before[journal.from]
       /\ RangeStart(before, cat) <= journal.at /\ journal.at <= RangeEnd(before, cat)
       /\ IsPermutation(before, activeEffects)

\* C14: a drop on an item of another category changes nothing; a reorder puts the
\* instance inside its category's index range and permutes the list; and when the
\* instances of each category were next to each other before the reorder, the
\* categories by index are the same after it.
C14_ReorderWithinCategory ==
  /\ ForeignDropRefused
  /\ MovedInsideRange
  /\ (journal.op = "reorder" /\ Grouped(journal.before.activeEffects)) =>
       CategoriesByIndex(activeEffects) = CategoriesByIndex(journal.before.activeEffects)

\* C14 (witness): an instance of a list with two categories, each in one run, was
\* moved to another index.
C14_Witness ==
  /\ journal.op = "reorder" /\ journal.from # journal.at
  /\ Grouped(journal.before.activeEffects)
  /\ Cardinality({CategoriesByIndex(activeEffects)[i] : i \in DOMAIN activeEffects}) >= 2
  /\ activeEffects # journal.before.activeEffects

\* C14 (as stated): the list of categories by index is the same before and after
\* every reorder.
C14_CategoriesKeptByEveryReorder ==
  /\ ForeignDropRefused
  /\ MovedInsideRange
  /\ journal.op = "reorder" =>
       CategoriesByIndex(activeEffects) = CategoriesByIndex(journal.before.activeEffects)

-----------------------------------------------------------------------------
(* Properties of the colour list and of the history, checked under EditSpec *)

\* C15: whatever the user has done through the sidebar, the menu and the undo and
\* redo shortcuts, colors holds at most MAX_COLORS entries.
C15_AtMostFiveColors == Len(colors) <= MAX_COLORS

\* C15 (witness): Add Color has filled the list and its button is no longer there.
C15_Witness ==
  /\ journal.op = "addColor" /\ Len(colors) = MAX_COLORS /\ ~addColorShown
  /\ Len(journal.before.colors) = MAX_COLORS - 1

\* C16: an undo directly after a change through setStateWithHistory leaves every
\* undoable field as it was before the change, a redo directly after that undo
\* leaves every undoable field as the change left it, and an undo or redo that
\* returned false has changed no undoable field.
C16_UndoRedoRestore ==
  /\ (journal.op = "undo" /\ journal.ok /\ journal.prev = "change") =>
       snapshotUndoable = journal.before
  /\ (journal.op = "redo" /\ journal.ok /\ journal.prev = "undo") =>
       snapshotUndoable = journal.after
  /\ (journal.op \in {"undo", "redo"} /\ ~journal.ok) =>
       snapshotUndoable = journal.before

\* C16 (witness): a change of the colour list and of the effect list have been
\* undone and the later one redone.
C16_Witness ==
  /\ journal.op = "redo" /\ journal.ok /\ journal.prev = "undo"
  /\ journal.before # journal.after
  /\ journal.before.colors # journal.after.colors
  /\ snapshotUndoable = journal.after

-----------------------------------------------------------------------------
(* Properties of the fragment program, checked under GpuSpec *)

\* C8: after the blend of a generator that is not the first, if its body left
\* mixFactor at 0.5 the weight is 0 and color is the snapshot taken before it.
C8_HalfMixKeepsColor ==
  (phase = "blended" /\ mixFactor = Half) => layerBlend = 0 /\ color = prevColor

\* a layer left mixFactor at 0.5 where the ramp's colour differs from the snapshot
C8_Witness ==
  /\ phase = "blended" /\ mixFactor = Half /\ layer >= 2
  /\ colorRamp(uColor, Half) # prevColor
  /\ prevColor # Black
  /\ color = prevColor

\* C9: colorRamp for N colours returns colour k at t = k/(N-1) for N >= 2, colour 0
\* for t <= 0 and colour N-1 for t >= 1; the one colour for N = 1; vec3(0.0) for N = 0.
C9_RampHitsStops ==
  phase = "ramp" =>
    LET n == Len(uColor)
    IN /\ n = 0 => rampOut = Black
       /\ n = 1 => rampOut = uColor[1]
       /\ n >= 2 =>
            /\ \A k \in 0..(n - 1) : rampT * (n - 1) = k * One => rampOut = uColor[k + 1]
            /\ rampT <= 0 => rampOut = uColor[1]
            /\ rampT >= One => rampOut = uColor[n]

\* four colours, t = 1/3: the second colour, different from its neighbours
C9_Witness ==
  /\ phase = "ramp"
  /\ Len(uColor) = 4
  /\ 3 * rampT = One
  /\ uColor[2] # uColor[1] /\ uColor[2] # uColor[3]
  /\ rampOut = uColor[2]

-----------------------------------------------------------------------------
(* Properties of the annotation pass, checked under EditorSpec. After a call  *)
(* of compileCurrentShader the journal holds the list the pass was given      *)
(* (before) and the list preprocessAnnotated or detectUniforms returned       *)
(* (after); fragmentSource is the source it read, glsl the source it wrote.   *)

\* two optional numbers, two defaults of one type, two declarations are the same
SameParam(p, q) ==
  /\ p.id = q.id /\ p.type = q.type /\ p.uniformName = q.uniformName
  /\ p.group = q.group /\ p.step = q.step /\ p.glslDefault = q.glslDefault
  /\ p.min = q.min /\ p.max = q.max
  /\ p.defaultValue = q.defaultValue

SameParams(ps, qs) ==
  Len(ps) = Len(qs) /\ \A k \in DOMAIN ps : SameParam(ps[k], qs[k])

\* the names the source annotates, and where each is annotated first
AnnotatedNames(source) == {Annotations(source)[k].name : k \in DOMAIN Annotations(source)}

FirstAt(source, name) ==
  SetMin({k \in DOMAIN Annotations(source) : Annotations(source)[k].name = name})

TimesAnnotated(source, name) ==
  Cardinality({k \in DOMAIN Annotations(source) : Annotations(source)[k].name = name})

\* the places of a token in the lines that are neither a declaration nor a
\* glint-param comment
References(lines, token) ==
  {pos \in UNION {{<<i, j>> : j \in DOMAIN lines[i]} : i \in DOMAIN lines} :
     /\ lines[pos[1]][pos[2]] = token
     /\ DeclaredName(lines[pos[1]]) = "" /\ ~IsGlintParamLine(lines[pos[1]])}

DeclarationLines(lines, uniformName) ==
  {i \in DOMAIN lines : DeclaredName(lines[i]) = uniformName}

\* C17: after a pass over an annotated source, the returned list holds one
\* declaration for each annotated name, in the order in which the names are first
\* annotated; every annotation has become the reference u_<name> (as many
\* references as the name had annotations, and no closing marker is left); and
\* the output has exactly one uniform declaration line for each name.
C17_DeclaredOnce ==
  journal.op = "preprocess" =>
    /\ Len(journal.after) = Cardinality(AnnotatedNames(fragmentSource))
    /\ \A k \in DOMAIN journal.after : journal.after[k].id \in AnnotatedNames(fragmentSource)
    /\ \A j, k \in DOMAIN journal.after :
         j < k => FirstAt(fragmentSource, journal.after[j].id)
                    < FirstAt(fragmentSource, journal.after[k].id)
    /\ \A name \in AnnotatedNames(fragmentSource) :
         /\ Cardinality(References(glsl, "u_" \o name)) = TimesAnnotated(fragmentSource, name)
         /\ Cardinality(DeclarationLines(glsl, "u_" \o name)) = 1
    /\ References(glsl, "/*@*/") = {}

\* a handler has run the pass over a source that annotates one name twice and
\* another name in between
C17_Witness ==
  /\ edits > 0 /\ journal.op = "preprocess"
  /\ Len(journal.after) >= 3
  /\ \E name \in AnnotatedNames(fragmentSource) :
       /\ TimesAnnotated(fragmentSource, name) >= 2
       /\ Cardinality(References(glsl, "u_" \o name)) >= 2
       /\ journal.after[1].id = name

\* C18: an annotation whose name is the id of a declaration of the list the pass
\* was given comes back as that declaration, unchanged, whatever the annotation's
\* kind and literal; the declaration line the pass writes for it has the type and
\* the uniform of that declaration, and the uniform is the one the references name.
C18_ExistingKept ==
  journal.op = "preprocess" =>
    \A k \in DOMAIN journal.after :
      HasParam(journal.before, journal.after[k].id) =>
        /\ SameParam(journal.after[k], ParamOf(journal.before, journal.after[k].id))
        /\ \E i \in DOMAIN glsl :
             glsl[i] = <<"uniform", glslType(journal.after[k].type),
                         journal.after[k].uniformName, ";">>
        /\ journal.after[k].uniformName = "u_" \o journal.after[k].id
        /\ References(glsl, journal.after[k].uniformName) # {}

\* what the pass would have inferred from the first annotation of a name
InferredFor(source, name) ==
  With(Annotations(source)[FirstAt(source, name)], LAMBDA a :
    inferParam(a.name, a.type, a.value, "u_" \o a.name, a.group))

\* a handler has run the pass over an annotation of another kind and literal than
\* the declaration it was given for that name, and the declaration came back
C18_Witness ==
  /\ edits > 0 /\ journal.op = "preprocess"
  /\ \E k \in DOMAIN journal.after :
       /\ HasParam(journal.before, journal.after[k].id)
       /\ InferredFor(fragmentSource, journal.after[k].id).type # journal.after[k].type
       /\ journal.after[k].max # InferredFor(fragmentSource, journal.after[k].id).max

\* literals that are not of the form of any kind: no number at the start, no
\* vecN(...) list, no vec3(x, y, z)
MalformedLiterals == {LitFast, LitX, LitNone, LitRed}

\* a well formed literal of the kind
WellFormed(type) ==
  CASE type = "float" -> Lit07 [] type = "int" -> Lit3 [] type = "vec2" -> LitVec2
    [] OTHER -> LitOrange

\* the names whose first annotation carries a malformed literal and for which the
\* pass was given no declaration, so that the declaration is inferred from it
MalformedNames(source, existing) ==
  {name \in AnnotatedNames(source) :
     /\ Annotations(source)[FirstAt(source, name)].value \in MalformedLiterals
     /\ ~HasParam(existing, name)}

\* the source with every malformed literal made well formed
Repaired(source) ==
  [i \in DOMAIN source |->
     [j \in DOMAIN source[i] |->
        IF source[i][j].kind = "annotation" /\ source[i][j].value \in MalformedLiterals
        THEN Annotation(source[i][j].type, source[i][j].name, source[i][j].group,
                        WellFormed(source[i][j].type))
        ELSE source[i][j]]]

\* the default a malformed literal gives: 0, [0, 0], and for a colour either the
\* grey of vec3ToHex or the given colour
IsFallback(p, colour) ==
  CASE p.type = "color" -> p.defaultValue = colour
    [] p.type = "vec2" -> p.defaultValue = <<0, 0>>
    [] OTHER -> p.defaultValue = 0

\* the pass went on as if the malformed literals were well formed: the same
\* output source, the same names declared, and the same declaration for every
\* name whose literal was well formed
CompletedAsIfWellFormed ==
  With(preprocessAnnotated(Repaired(fragmentSource), journal.before), LAMBDA repaired :
    /\ glsl = repaired.glsl
    /\ Len(journal.after) = Len(repaired.params)
    /\ \A k \in DOMAIN journal.after :
         IF journal.after[k].id \in MalformedNames(fragmentSource, journal.before)
         THEN journal.after[k].id = repaired.params[k].id
                /\ journal.after[k].type = repaired.params[k].type
         ELSE SameParam(journal.after[k], repaired.params[k]))

NoAnnotations(source) ==
  \A i \in DOMAIN source : \A j \in DOMAIN source[i] : source[i][j].kind = "text"

\* C20: a pass over a source without annotations leaves a non-empty parameter
\* list as it is, whatever detectUniforms finds; the detected declarations become
\* the list only when the list was empty (and the source compiled).
C20_ParamsKept ==
  (journal.op \in {"preprocess", "detect"} /\ NoAnnotations(fragmentSource)) =>
    /\ journal.op = "detect"
    /\ journal.before # <<>> => SameParams(params, journal.before)
    /\ (journal.before = <<>> /\ journal.ok /\ journal.after # <<>>) =>
         SameParams(params, journal.after)
    /\ (journal.before = <<>> /\ ~journal.ok) => params = <<>>

\* the editor has compiled a source without annotations that declares a uniform
\* of its own while the state had parameters, and detectUniforms found another
\* list than the state's
C20_Witness ==
  /\ edits > 0 /\ journal.op = "detect" /\ journal.ok
  /\ NoAnnotations(fragmentSource)
  /\ journal.before # <<>> /\ journal.after # <<>>
  /\ journal.after[1].id # journal.before[1].id
  /\ params # <<>> /\ params[1].id = journal.before[1].id

\* the block of declarations for a list: the comment lines, then the uniform lines
DeclarationBlock(ps) ==
  [k \in DOMAIN ps |->
     <<"// [glint-param] uniform ", glslType(ps[k].type), ps[k].uniformName, ";">>]
    \o [k \in DOMAIN ps |-> <<"uniform", glslType(ps[k].type), ps[k].uniformName, ";">>]

\* the lines of the source that are a uniform declaration, and its precision lines
SourceDeclarations(source) ==
  {i \in DOMAIN source : DeclaredName(RenderLine(source[i])) # ""}

SourcePrecisions(source) ==
  {i \in DOMAIN source : source[i] # <<>> /\ source[i][1] = Text("precision")}

\* where the claim puts the block: the line it begins at, and the number of empty
\* lines put in before it
BlockPlace(source) ==
  IF SourceDeclarations(source) # {} THEN <<SetMax(SourceDeclarations(source)) + 1, 0>>
  ELSE IF SourcePrecisions(source) # {} THEN <<SetMin(SourcePrecisions(source)) + 2, 1>>
  ELSE <<1, 0>>

\* C22: the pass puts the block of discovered declarations into the output once:
\* directly after the last uniform declaration line of the source; without one,
\* after the first precision line (and an empty line); without either, at the
\* top. The lines before the block are those of the source. When the pass finds
\* no annotation, the output is the source.
C22_InjectedOnce ==
  journal.op = "preprocess" =>
    IF journal.after = <<>> THEN glsl = RenderSource(fragmentSource)
    ELSE With(BlockPlace(fragmentSource), LAMBDA place :
           /\ Positions(glsl, DeclarationBlock(journal.after)) = {place[1]}
           /\ Len(glsl) = Len(fragmentSource) + Len(DeclarationBlock(journal.after)) + place[2]
           /\ place[2] = 1 => glsl[place[1] - 1] = Blank
           /\ \A i \in 1..(place[1] - 1 - place[2]) : glsl[i] = RenderLine(fragmentSource[i])
           /\ \A i \in DOMAIN glsl :
                (i < place[1] \/ i >= place[1] + Len(DeclarationBlock(journal.after))) =>
                  /\ ~IsGlintParamLine(glsl[i])
                  /\ DeclaredName(glsl[i]) \notin
                       {journal.after[k].uniformName : k \in DOMAIN journal.after})

\* a handler has run the pass over a source with a precision line and no uniform
\* declaration, and two names were declared
C22_Witness ==
  /\ edits > 0 /\ journal.op = "preprocess"
  /\ Len(journal.after) = 2
  /\ SourceDeclarations(fragmentSource) = {} /\ SourcePrecisions(fragmentSource) # {}
  /\ glsl[3] = DeclarationBlock(journal.after)[1]

-----------------------------------------------------------------------------
(* Properties of the Store's undo history, checked under HistorySpec.        *)

\* what pushing a snapshot on a stack of at most MAX_HISTORY entries leaves
Pushed(stack, snapshot) ==
  IF Len(stack) < MAX_HISTORY THEN Append(stack, snapshot)
  ELSE Append(Tail(stack), snapshot)

\* C23: a burst of setStateParamChange calls adds exactly one entry to the undo
\* stack, the undoable state from before its first call: the first call keeps
\* that state aside and leaves the stack alone, the later calls leave both
\* alone, the timer pushes it as the one new entry, and an undo during the
\* burst, or right after the timer, restores it.
C23_BurstOneEntry ==
  [][
      /\ (journal'.op = "colorChange" /\ pendingParamSnapshot = NoSnapshot) =>
          /\ pendingParamSnapshot' = snapshotUndoable
          /\ undoStack' = undoStack
      /\ (journal'.op = "colorChange" /\ pendingParamSnapshot # NoSnapshot) =>
          /\ pendingParamSnapshot' = pendingParamSnapshot
          /\ undoStack' = undoStack
      /\ (journal'.op = "flush" /\ pendingParamSnapshot # NoSnapshot) =>
          /\ undoStack' = Pushed(undoStack, pendingParamSnapshot)
          /\ pendingParamSnapshot' = NoSnapshot
      /\ (journal'.op = "undo" /\ pendingParamSnapshot # NoSnapshot) =>
          /\ journal'.ok
          /\ snapshotUndoable' = pendingParamSnapshot
          /\ pendingParamSnapshot' = NoSnapshot
          /\ Len(undoStack') = Len(Pushed(undoStack, pendingParamSnapshot)) - 1
      /\ (journal'.op = "undo" /\ journal.op = "flush") =>
          /\ journal'.ok
          /\ snapshotUndoable' = undoStack[Len(undoStack)]
  ]_vars

\* C23 (witness): a burst is under way and its latest call was not its first:
\* the state before that call is not the state from before the burst.
C23_Witness ==
  /\ journal.op = "colorChange"
  /\ pendingParamSnapshot # NoSnapshot
  /\ journal.before # pendingParamSnapshot
  /\ journal.after # journal.before

\* the handlers that change the state through setStateWithHistory or
\* setStateParamChange
ChangeOps == {"addColor", "removeColor", "colorChange"}

\* C25: once a change has been applied after an undo, nothing can be redone:
\* canRedo is false, also while the debounce timer has not fired yet.
C25_NoRedoAfterChange ==
  journal.op \in ChangeOps => redoStack = <<>>

\* C26: the undo stack holds at most MAX_HISTORY snapshots, and the undo and
\* redo stacks together hold at most MAX_HISTORY snapshots.
C26_HistoryBounded ==
  /\ Len(undoStack) <= MAX_HISTORY
  /\ Len(undoStack) + Len(redoStack) <= MAX_HISTORY

\* C26 (witness): the undo stack is full again after a redo that was asked for
\* while a parameter change was waiting for its timer.
C26_Witness ==
  /\ journal.op = "redo" /\ journal.ok
  /\ pendingParamSnapshot # NoSnapshot
  /\ Len(undoStack) = MAX_HISTORY

-----------------------------------------------------------------------------
(* Properties of addEffect and removeEffect, checked under Spec.             *)

\* every instance resolves and the categories stand in the order uv-transform,
\* generator, post
OrderedByCategory(effects) ==
  /\ \A i \in DOMAIN effects : getEffect(effects[i].blockId) # NoBlock
  /\ \A i, j \in DOMAIN effects :
       i < j => categoryPriority(getEffect(effects[i].blockId).category)
                  <= categoryPriority(getEffect(effects[j].blockId).category)

Without(effects, at) == SubSeq(effects, 1, at - 1) \o SubSeq(effects, at + 1, Len(effects))

\* the instance at index `at` is new, enabled, the last one of its category, and
\* every parameter of its definition has its default under the scoped id
PlacedAt(before, after, values, at) ==
  /\ Without(after, at) = before
  /\ after[at].enabled
  /\ \A j \in DOMAIN after :
       getEffect(after[j].blockId).category = getEffect(after[at].blockId).category => j <= at
  /\ \A n \in DOMAIN getEffect(after[at].blockId).params :
       LET param == getEffect(after[at].blockId).params[n]
           key == ScopedId(after[at].instanceId, param.id)
       IN key \in DOMAIN values /\ values[key] = param.defaultValue

\* C27: addEffect on a list grouped in the order uv-transform, generator, post
\* leaves it so grouped, with the new instance the last of its category, the
\* existing instances in their order and the new parameters at their defaults.
C27_AddKeepsGroups ==
  (journal.op = "addEffect" /\ OrderedByCategory(journal.before.activeEffects)) =>
    /\ OrderedByCategory(journal.after.activeEffects)
    /\ \E at \in DOMAIN journal.after.activeEffects :
         PlacedAt(journal.before.activeEffects, journal.after.activeEffects,
                  journal.after.paramValues, at)

\* C27 (witness): an instance was added to a grouped list in front of an
\* instance of a later category.
C27_Witness ==
  /\ journal.op = "addEffect"
  /\ OrderedByCategory(journal.before.activeEffects)
  /\ journal.before.activeEffects # <<>>
  /\ journal.after.activeEffects[Len(journal.after.activeEffects)]
       = journal.before.activeEffects[Len(journal.before.activeEffects)]
  /\ journal.after.activeEffects[1] # journal.before.activeEffects[1]

\* the keys of a value mapping that are scoped to an instance
ScopedKeys(values, instanceId) == {k \in DOMAIN values : StartsWithInstance(k, instanceId)}

\* C30: removeEffect removes exactly one instance from activeEffects, the one
\* with the id, and exactly the paramValues keys scoped to it: the other
\* instances keep their order and enabled flags, the other entries their values.
C30_RemovesOneInstance ==
  journal.op = "removeEffect" =>
    \E at \in DOMAIN journal.before.activeEffects :
      /\ journal.after.activeEffects = Without(journal.before.activeEffects, at)
      /\ DOMAIN journal.after.paramValues =
           DOMAIN journal.before.paramValues
             \ ScopedKeys(journal.before.paramValues, journal.before.activeEffects[at].instanceId)
      /\ \A k \in DOMAIN journal.after.paramValues :
           journal.after.paramValues[k] = journal.before.paramValues[k]

-----------------------------------------------------------------------------
(* Properties of composeAndCompile, checked under EditSpec.                  *)

\* the handlers that change the structure of the composition
StructuralOps ==
  {"addEffect", "removeEffect", "toggleEffect", "reorder", "addColor", "removeColor",
   "loadPreset", "loadSaved", "undo", "redo"}

\* C28: after each structural operation the stored compiledFragmentSource is the
\* source compose gives for the current activeEffects and number of colours,
\* whether or not the renderer accepted it.
C28_SourceIsComposition ==
  journal.op \in StructuralOps =>
    glsl = compose(activeEffects, Len(colors)).glsl

\* C28 (witness): a reorder has changed the list and the renderer has rejected
\* the source composed for it.
C28_Witness ==
  /\ journal.op = "reorder" /\ journal.ok
  /\ journal.after.activeEffects # journal.before.activeEffects
  /\ compileErrors # <<>>
  /\ glsl # compose(journal.before.activeEffects, Len(colors)).glsl

-----------------------------------------------------------------------------
(* Properties of inferParam's ranges, checked under EditorSpec.              *)

\* the float and int declarations the last pass has inferred
InferredNumbers ==
  {k \in DOMAIN journal.after :
     /\ ~HasParam(journal.before, journal.after[k].id)
     /\ journal.after[k].type \in {"float", "int"}}

\* a negative number of magnitude below 0.001
SmallNegative(v) == v < 0 /\ -v < Micro \div 1000

\* C29 (as amended): an inferred float or int declaration has min < max, and
\* min <= defaultValue <= max unless the default is a negative number of
\* magnitude below 0.001, for which the range is [0, 1].
C29_RangeAroundDefault ==
  journal.op = "preprocess" =>
    \A k \in InferredNumbers :
      LET p == journal.after[k]
      IN /\ p.min # Undefined /\ p.max # Undefined
         /\ p.min[1] < p.max[1]
         /\ p.defaultValue <= p.max[1]
         /\ IF SmallNegative(p.defaultValue)
            THEN p.min = Num(0) /\ p.max = Num(Micro)
            ELSE p.min[1] <= p.defaultValue

\* C29 as stated: min < max and min <= defaultValue <= max for every literal,
\* positive, negative or near zero.
C29_RangeForEveryLiteral ==
  journal.op = "preprocess" =>
    \A k \in InferredNumbers :
      /\ journal.after[k].min[1] < journal.after[k].max[1]
      /\ journal.after[k].min[1] <= journal.after[k].defaultValue
      /\ journal.after[k].defaultValue <= journal.after[k].max[1]

\* C29 (witness): a float declaration inferred from the literal -0.5, with the
\* range from -1 to 0.5.
C29_Witness ==
  /\ journal.op = "preprocess"
  /\ \E k \in InferredNumbers :
       /\ journal.after[k].type = "float"
       /\ journal.after[k].defaultValue = -(Micro \div 2)
       /\ journal.after[k].min = Num(-Micro)
       /\ journal.after[k].max = Num(Micro \div 2)

====
